---- MODULE Spec2Model ----
(***************************************************************************)
(* A model of the netlist core of ferrum_hls: the constant evaluator       *)
(* (fhdl_netlist/src/const_val.rs), the Reachability, Set-Names and        *)
(* Transform visitors (fhdl_netlist/src/visitor/*.rs) and the bit-vector   *)
(* flattening of composite values (ferrum_compiler/src/generator/bitvec.rs)*)
(*                                                                         *)
(* Every subsystem has its own specification (SpecConst, SpecReach, ...)   *)
(* over its own group of variables; the variables of the other groups are  *)
(* held at an idle value.                                                  *)
(***************************************************************************)
EXTENDS Integers, Sequences, FiniteSets, TLC

VARIABLES
    \* constant evaluator: the operands, the operator applied and its outcome
    lhs, rhs, bin_op, result,
    \* the netlist: [top, modules], each module with its nodes, list order,
    \* designated ports, name and skip flag
    netlist,
    \* Reachability: the port stack, the module queue, the handled set, the
    \* module visit_module is working on (0: none), the position of run,
    \* the number of finished runs, the skip flags the first run left and
    \* the ports the running run has marked live, in the order of the marks
    ports, modules, handled, visiting, reach_pc, runs, first_flags, marked,
    \* Set-Names: the two counter maps, the position of run and the cursors
    \* over the modules and over the nodes of the module being visited
    idents, module_idents, names_pc, names_mod, names_node,
    \* Transform: the configuration of the netlist, the value-numbering
    \* table, the inlines counted, the instantiations spliced, the frames of
    \* the nested visit_module calls, the position of run, the netlist as
    \* it was built, and the modules whose visit_module has returned, in the
    \* order of the returns
    cfg, cons, current, spliced, stack, trans_pc, netlist0, returned,
    \* bit-vector flattening: the type and the value of an item, the
    \* bit-vector to_bitvec makes of it, the item from_bitvec makes of that,
    \* and how far the two have run
    sig_ty, item, bitvec, unpacked, bv_pc,
    \* graph store: the graph (edges by id, the outgoing and the incoming
    \* list of every node), the graph before reconnect_all_outgoing, the two
    \* ports it was called with and whether it has been called
    graph, graph0, g_old, g_new, g_pc, g_cursor,
    \* a call of NetList::inline_mod from outside Transform: the module and
    \* the node it was called with, what it returned and whether it has
    \* been called
    inl_call, inl_res, inl_pc,
    \* run_visitors run twice on the same netlist: which run is going on
    \* (0: none) and the netlist the first run ended with
    pipe_run, first_out

constVars == <<lhs, rhs, bin_op, result>>
reachVars ==
    <<ports, modules, handled, visiting, reach_pc, runs, first_flags, marked>>

namesVars == <<idents, module_idents, names_pc, names_mod, names_node>>

transVars ==
    <<cfg, cons, current, spliced, stack, trans_pc, netlist0, returned>>

bvVars == <<sig_ty, item, bitvec, unpacked, bv_pc>>

graphVars == <<graph, graph0, g_old, g_new, g_pc, g_cursor>>

inlineVars == <<inl_call, inl_res, inl_pc>>

pipeVars == <<pipe_run, first_out>>

vars == <<constVars, netlist, reachVars, namesVars, transVars, bvVars,
          graphVars, inlineVars, pipeVars>>

\* what the actions of one subsystem leave alone
constFrame ==
    <<netlist, reachVars, namesVars, transVars, bvVars, graphVars, inlineVars,
      pipeVars>>
reachFrame ==
    <<constVars, namesVars, transVars, bvVars, graphVars, inlineVars, pipeVars>>
namesFrame ==
    <<constVars, reachVars, transVars, bvVars, graphVars, inlineVars, pipeVars>>
transFrame ==
    <<constVars, reachVars, namesVars, bvVars, graphVars, inlineVars, pipeVars>>
bvFrame ==
    <<constVars, netlist, reachVars, namesVars, transVars, graphVars,
      inlineVars, pipeVars>>
graphFrame ==
    <<constVars, netlist, reachVars, namesVars, transVars, bvVars, inlineVars,
      pipeVars>>
inlineFrame ==
    <<constVars, reachVars, namesVars, transVars, bvVars, graphVars, pipeVars>>
pipeFrame == <<constVars, bvVars, graphVars, inlineVars>>

\* the values a subsystem's variables keep while it is not in use
NoNetlist == [top |-> 0, modules |-> <<>>]
NoIdents == [k \in {} |-> 0]

ReachIdle ==
    /\ ports = <<>>
    /\ modules = <<>>
    /\ handled = {}
    /\ visiting = 0
    /\ reach_pc = "off"
    /\ runs = 0
    /\ first_flags = <<>>
    /\ marked = <<>>

NamesIdle ==
    /\ idents = NoIdents
    /\ module_idents = NoIdents
    /\ names_pc = "off"
    /\ names_mod = 0
    /\ names_node = 0

NoCfg == [inline_mod |-> "None", max_inlines |-> -1, no_eliminate_const |-> FALSE]

\* Transform is not running
TransOff ==
    /\ cfg = NoCfg
    /\ cons = NoIdents
    /\ current = 0
    /\ spliced = 0
    /\ stack = <<>>
    /\ returned = <<>>
    /\ trans_pc = "off"

TransIdle ==
    /\ TransOff
    /\ netlist0 = NoNetlist

\* a type is [kind, width, items]: a primitive of a width, or an array or a
\* group (tuple, struct) of the types in items; an item is [prim, items]:
\* the value of a primitive, or the items of a composite
NoTy == [kind |-> "prim", width |-> 0, items |-> <<>>]
NoItem == [prim |-> -1, items |-> <<>>]
NoBitVec == [val |-> -1, width |-> 0]

BvIdle ==
    /\ sig_ty = NoTy
    /\ item = NoItem
    /\ bitvec = NoBitVec
    /\ unpacked = NoItem
    /\ bv_pc = "off"

\* Graph::default over no nodes
NoGraph ==
    [edges |-> <<>>, outs |-> <<>>, incs |-> <<>>, last_idx |-> 0,
     last_node |-> 0]

GraphIdle ==
    /\ graph = NoGraph
    /\ graph0 = NoGraph
    /\ g_old = [node |-> 0, port |-> 0]
    /\ g_new = [node |-> 0, port |-> 0]
    /\ g_pc = "off"
    /\ g_cursor = -1

\* Option<NodeId>: None
NoNodeId == [some |-> FALSE, node_id |-> 0]

InlineIdle ==
    /\ inl_call = [mod |-> 0, node |-> 0]
    /\ inl_res = NoNodeId
    /\ inl_pc = "off"

PipeIdle ==
    /\ pipe_run = 0
    /\ first_out = NoNetlist

(***************************************************************************)
(* u128.  TLC's integers are 32 bits wide, so a u128 is a function from    *)
(* limb index 0..15 to a byte, least significant limb first.               *)
(***************************************************************************)
U128Bits == 128
LimbBits == 2^3
LimbBase == 2^LimbBits
NLimbs == U128Bits \div LimbBits
Limbs == 0 .. (NLimbs - 1)

\* the u128 of a natural number below 2^24
U(n) == [i \in Limbs |-> IF i <= 2 THEN (n \div (LimbBase^i)) % LimbBase ELSE 0]

\* the natural number of a u128 below 2^24 (callers check Fits24 first)
Fits24(x) == \A i \in Limbs : i > 2 => x[i] = 0
ToNat(x) == x[0] + LimbBase * x[1] + LimbBase * LimbBase * x[2]

\* 2^k as a u128, k < 128
Pow2(k) == [i \in Limbs |-> IF i = k \div LimbBits THEN 2^(k % LimbBits) ELSE 0]

RECURSIVE AndByte(_, _, _)
AndByte(x, y, k) ==
    IF k = 0 THEN 0
    ELSE (x % 2) * (y % 2) + 2 * AndByte(x \div 2, y \div 2, k - 1)

RECURSIVE OrByte(_, _, _)
OrByte(x, y, k) ==
    IF k = 0 THEN 0
    ELSE (IF x % 2 = 1 \/ y % 2 = 1 THEN 1 ELSE 0)
         + 2 * OrByte(x \div 2, y \div 2, k - 1)

BitAnd128(a, b) == [i \in Limbs |-> AndByte(a[i], b[i], LimbBits)]
BitOr128(a, b) == [i \in Limbs |-> OrByte(a[i], b[i], LimbBits)]

\* a < b on u128: decided at the most significant limb where they differ
RECURSIVE LtFrom(_, _, _)
LtFrom(a, b, i) ==
    IF i < 0 THEN FALSE
    ELSE IF a[i] # b[i] THEN a[i] < b[i]
    ELSE LtFrom(a, b, i - 1)
Lt128(a, b) == LtFrom(a, b, NLimbs - 1)

\* carry out of limb i of a + b (limb -1 has no carry)
RECURSIVE AddCarry(_, _, _)
AddCarry(a, b, i) ==
    IF i < 0 THEN 0
    ELSE (a[i] + b[i] + AddCarry(a, b, i - 1)) \div LimbBase

\* a + b modulo 2^128
WrappingAdd(a, b) ==
    [i \in Limbs |-> (a[i] + b[i] + AddCarry(a, b, i - 1)) % LimbBase]

\* borrow out of limb i of a - b
RECURSIVE SubBorrow(_, _, _)
SubBorrow(a, b, i) ==
    IF i < 0 THEN 0
    ELSE IF a[i] - b[i] - SubBorrow(a, b, i - 1) < 0 THEN 1 ELSE 0

\* a - b modulo 2^128
WrappingSub(a, b) ==
    [i \in Limbs |-> (a[i] - b[i] - SubBorrow(a, b, i - 1) + LimbBase) % LimbBase]

\* column k of the schoolbook product a * b, k in 0 .. 2*NLimbs-1
RECURSIVE MulColumnFrom(_, _, _, _)
MulColumnFrom(a, b, k, i) ==
    IF i < 0 THEN 0
    ELSE (IF i \in Limbs /\ (k - i) \in Limbs THEN a[i] * b[k - i] ELSE 0)
         + MulColumnFrom(a, b, k, i - 1)

\* column k plus the carry of the columns below it
RECURSIVE MulAcc(_, _, _)
MulAcc(a, b, k) ==
    IF k < 0 THEN 0
    ELSE MulColumnFrom(a, b, k, k) + (MulAcc(a, b, k - 1) \div LimbBase)

\* a * b modulo 2^128, and whether the full product needs more than 128 bits
WrappingMul(a, b) == [i \in Limbs |-> MulAcc(a, b, i) % LimbBase]
MulOverflows(a, b) ==
    \E k \in NLimbs .. (2 * NLimbs - 1) : MulAcc(a, b, k) % LimbBase # 0

(***************************************************************************)
(* Option<u128>: the checked operations of the backing integer.            *)
(***************************************************************************)
None == [some |-> FALSE, val |-> U(0)]
Some(v) == [some |-> TRUE, val |-> v]

checked_add(a, b) ==
    IF AddCarry(a, b, NLimbs - 1) = 1 THEN None ELSE Some(WrappingAdd(a, b))

checked_sub(a, b) ==
    IF Lt128(a, b) THEN None ELSE Some(WrappingSub(a, b))

checked_mul(a, b) ==
    IF MulOverflows(a, b) THEN None ELSE Some(WrappingMul(a, b))

(***************************************************************************)
(* ConstVal                                                                *)
(***************************************************************************)
\* fhdl_const_func::mask: the low `width` bits set
mask(width) ==
    [i \in Limbs |->
        IF width >= LimbBits * (i + 1) THEN LimbBase - 1
        ELSE IF width <= LimbBits * i THEN 0
        ELSE 2^(width - LimbBits * i) - 1]

val_(val, width) == BitAnd128(val, mask(width))

\* the outcome of an evaluation: a ConstVal, or the process aborted
Abort == [tag |-> "abort", val |-> U(0), width |-> 0]
Value(val, width) == [tag |-> "val", val |-> val, width |-> width]
NoResult == [tag |-> "none", val |-> U(0), width |-> 0]

\* ConstVal::new: assert!(width <= 128), then the value is stored masked
ConstValNew(val, width) ==
    IF width > U128Bits THEN Abort ELSE Value(val_(val, width), width)

\* ConstVal::val
ConstValVal(c) == val_(c.val, c.width)

\* op_width: assert_eq!(lhs.width, rhs.width)
OpWidthOk(l, r) == l.width = r.width

\* bin_op(val, lhs, rhs)
BinOpResult(val, l, r) ==
    IF ~OpWidthOk(l, r) THEN Abort ELSE ConstValNew(val, l.width)

\* ConstAdd with wrapping_add in place of checked_add
ConstAddWrapping(l, r) == BinOpResult(WrappingAdd(l.val, r.val), l, r)

\* impl Add for ConstVal
ConstAdd(l, r) ==
    LET s == checked_add(l.val, r.val)
    IN  IF ~s.some THEN Abort ELSE BinOpResult(s.val, l, r)

\* impl Sub for ConstVal
ConstSub(l, r) ==
    LET s == checked_sub(l.val, r.val)
    IN  IF ~s.some THEN Abort ELSE BinOpResult(s.val, l, r)

\* impl Mul for ConstVal
ConstMul(l, r) ==
    LET s == checked_mul(l.val, r.val)
    IN  IF ~s.some THEN Abort ELSE BinOpResult(s.val, l, r)

(***************************************************************************)
(* The other operators of the backing u128.                                *)
(***************************************************************************)
RECURSIVE XorByte(_, _, _)
XorByte(x, y, k) ==
    IF k = 0 THEN 0
    ELSE ((x + y) % 2) + 2 * XorByte(x \div 2, y \div 2, k - 1)

BitXor128(a, b) == [i \in Limbs |-> XorByte(a[i], b[i], LimbBits)]
Not128(a) == [i \in Limbs |-> LimbBase - 1 - a[i]]

\* limb j of x, 0 outside the 16 limbs
LimbAt(x, j) == IF j \in Limbs THEN x[j] ELSE 0

\* x << k and x >> k for 0 <= k < 128
Shl128(x, k) ==
    LET q == k \div LimbBits
        r == k % LimbBits
    IN  [i \in Limbs |->
            ((LimbAt(x, i - q) * 2^r) % LimbBase)
            + (LimbAt(x, i - q - 1) \div 2^(LimbBits - r))]

Shr128(x, k) ==
    LET q == k \div LimbBits
        r == k % LimbBits
    IN  [i \in Limbs |->
            (LimbAt(x, i + q) \div 2^r)
            + ((LimbAt(x, i + q + 1) * 2^(LimbBits - r)) % LimbBase)]

\* (x as i128) >> k as u128: the vacated bits take bit 127 of x
Sar128(x, k) ==
    IF x[NLimbs - 1] >= LimbBase \div 2
    THEN BitOr128(Shr128(x, k), Not128(mask(U128Bits - k)))
    ELSE Shr128(x, k)

\* a shift amount of 128 or more overflows the shift
ShiftOverflows(amount) ==
    \/ \E i \in Limbs : i > 0 /\ amount[i] # 0
    \/ amount[0] >= U128Bits

\* a / b and a % b, b # 0: limb by limb when b is below 2^16, by repeated
\* subtraction otherwise
Fits16(x) == \A i \in Limbs : i > 1 => x[i] = 0
ToNat16(x) == x[0] + LimbBase * x[1]

RECURSIVE RemAbove(_, _, _)
RemAbove(a, d, i) ==
    IF i > NLimbs - 1 THEN 0
    ELSE (RemAbove(a, d, i + 1) * LimbBase + a[i]) % d

RECURSIVE DivBySub(_, _)
DivBySub(a, b) ==
    IF Lt128(a, b) THEN U(0)
    ELSE WrappingAdd(U(1), DivBySub(WrappingSub(a, b), b))

RECURSIVE RemBySub(_, _)
RemBySub(a, b) == IF Lt128(a, b) THEN a ELSE RemBySub(WrappingSub(a, b), b)

Div128(a, b) ==
    IF Fits16(b)
    THEN [i \in Limbs |->
             (RemAbove(a, ToNat16(b), i + 1) * LimbBase + a[i]) \div ToNat16(b)]
    ELSE DivBySub(a, b)

Rem128(a, b) ==
    IF Fits16(b) THEN U(RemAbove(a, ToNat16(b), 0)) ELSE RemBySub(a, b)

\* impl Div and Rem for ConstVal: the division aborts on a zero divisor
ConstDiv(l, r) ==
    IF r.val = U(0) THEN Abort ELSE BinOpResult(Div128(l.val, r.val), l, r)

ConstRem(l, r) ==
    IF r.val = U(0) THEN Abort ELSE BinOpResult(Rem128(l.val, r.val), l, r)

\* impl BitAnd, BitOr and BitXor for ConstVal
ConstBitAnd(l, r) == BinOpResult(BitAnd128(l.val, r.val), l, r)
ConstBitOr(l, r) == BinOpResult(BitOr128(l.val, r.val), l, r)
ConstBitXor(l, r) == BinOpResult(BitXor128(l.val, r.val), l, r)

\* impl Shl and Shr for ConstVal and ConstVal::sra: op_width comes first; a
\* shift by 128 or more aborts in a build with overflow checks and shifts
\* by the amount modulo 128 in one without
ConstShift(Shift(_, _), l, r, overflow_checks) ==
    IF ~OpWidthOk(l, r) THEN Abort
    ELSE LET amount == val_(r.val, l.width)
         IN  IF ShiftOverflows(amount) /\ overflow_checks THEN Abort
             ELSE BinOpResult(Shift(val_(l.val, l.width),
                                    amount[0] % U128Bits), l, r)

ConstShl(l, r, overflow_checks) == ConstShift(Shl128, l, r, overflow_checks)
ConstShr(l, r, overflow_checks) == ConstShift(Shr128, l, r, overflow_checks)
ConstSra(l, r, overflow_checks) == ConstShift(Sar128, l, r, overflow_checks)

\* impl From<bool> for ConstVal
FromBool(b) == ConstValNew(U(IF b THEN 1 ELSE 0), 1)

\* impl PartialEq and Ord for ConstVal: -1, 0, 1 for Less, Equal, Greater
ConstCmp(l, r) ==
    IF Lt128(val_(l.val, l.width), val_(r.val, l.width)) THEN -1
    ELSE IF val_(l.val, l.width) = val_(r.val, l.width) THEN 0
    ELSE 1

\* a comparison that does not look at the widths
ConstCompareAnyWidth(l, r, outcomes) == FromBool(ConstCmp(l, r) \in outcomes)

\* a comparison operator: op_width aborts on different widths
ConstCompare(l, r, outcomes) ==
    IF ~OpWidthOk(l, r) THEN Abort ELSE FromBool(ConstCmp(l, r) \in outcomes)

\* ConstVal::eval_bin_op
eval_bin_op(l, r, op, overflow_checks) ==
    CASE op = "Add" -> ConstAdd(l, r)
      [] op = "Sub" -> ConstSub(l, r)
      [] op = "Mul" -> ConstMul(l, r)
      [] op = "Div" -> ConstDiv(l, r)
      [] op = "BitAnd" -> ConstBitAnd(l, r)
      [] op = "Rem" -> ConstRem(l, r)
      [] op = "BitOr" -> ConstBitOr(l, r)
      [] op = "BitXor" -> ConstBitXor(l, r)
      [] op = "And" -> ConstBitAnd(l, r)
      [] op = "Or" -> ConstBitAnd(l, r)
      [] op = "Sll" -> ConstShl(l, r, overflow_checks)
      [] op = "Slr" -> ConstShr(l, r, overflow_checks)
      [] op = "Sra" -> ConstSra(l, r, overflow_checks)
      [] op = "Eq" -> ConstCompare(l, r, {0})
      [] op = "Ne" -> ConstCompare(l, r, {-1, 1})
      [] op = "Ge" -> ConstCompare(l, r, {0, 1})
      [] op = "Gt" -> ConstCompare(l, r, {1})
      [] op = "Le" -> ConstCompare(l, r, {-1, 0})
      [] op = "Lt" -> ConstCompare(l, r, {-1})

\* the operators of node::BinOp
BinOps ==
    {"Add", "Sub", "Mul", "Div", "BitAnd", "Rem", "BitOr", "BitXor", "And",
     "Or", "Sll", "Slr", "Sra", "Eq", "Ne", "Ge", "Gt", "Le", "Lt"}

(***************************************************************************)
(* The operands the evaluator is run on: every value of every width up to  *)
(* NarrowMax, and the values at the edges of the widths 8, 127 and 128.    *)
(***************************************************************************)
NarrowMax == 3

NarrowWidths == 0 .. NarrowMax
WideWidths == {LimbBits, U128Bits - 1, U128Bits}

EdgeValues(w) ==
    {U(0), U(1), U(2), U(5), mask(w), Pow2(w - 1),
     WrappingSub(mask(w), U(1))}

ConstOperands ==
    {ConstValNew(U(n), w) : n \in 0 .. (2^NarrowMax - 1), w \in NarrowWidths}
    \cup UNION {{ConstValNew(v, w) : v \in EdgeValues(w)} : w \in WideWidths}

ConstIdle ==
    /\ lhs = NoResult
    /\ rhs = NoResult
    /\ bin_op = "none"
    /\ result = NoResult

ConstInit ==
    /\ lhs \in ConstOperands
    /\ rhs \in ConstOperands
    /\ bin_op = "none"
    /\ result = NoResult
    /\ netlist = NoNetlist
    /\ ReachIdle
    /\ NamesIdle
    /\ TransIdle
    /\ BvIdle
    /\ GraphIdle
    /\ InlineIdle
    /\ PipeIdle

EvalAdd ==
    /\ bin_op = "none"
    /\ bin_op' = "Add"
    /\ result' = ConstAdd(lhs, rhs)
    /\ UNCHANGED <<lhs, rhs>>
    /\ UNCHANGED constFrame

EvalSub ==
    /\ bin_op = "none"
    /\ bin_op' = "Sub"
    /\ result' = ConstSub(lhs, rhs)
    /\ UNCHANGED <<lhs, rhs>>
    /\ UNCHANGED constFrame

EvalMul ==
    /\ bin_op = "none"
    /\ bin_op' = "Mul"
    /\ result' = ConstMul(lhs, rhs)
    /\ UNCHANGED <<lhs, rhs>>
    /\ UNCHANGED constFrame

\* eval_bin_op on the two operands, in a build with or without overflow
\* checks
EvalBinOp ==
    /\ bin_op = "none"
    /\ \E op \in BinOps, overflow_checks \in BOOLEAN :
           /\ bin_op' = op
           /\ result' = eval_bin_op(lhs, rhs, op, overflow_checks)
    /\ UNCHANGED <<lhs, rhs>>
    /\ UNCHANGED constFrame

ConstNext == EvalAdd \/ EvalSub \/ EvalMul \/ EvalBinOp

(***************************************************************************)
(* Claims about the constant evaluator.                                    *)
(***************************************************************************)
SameWidth == lhs.width = rhs.width

\* (a.val() + b.val()) mod 2^W, computed on natural numbers for the widths
\* whose sums fit TLC's integers and on the 129-bit sum otherwise (its low
\* 128 bits are WrappingAdd, bit 128 is the last carry).
RefAddFits(a, b) == AddCarry(ConstValVal(a), ConstValVal(b), NLimbs - 1) = 0
RefAddMod(a, b, W) ==
    IF W <= 2 * LimbBits
    THEN U((ToNat(ConstValVal(a)) + ToNat(ConstValVal(b))) % (2^W))
    ELSE val_(WrappingAdd(ConstValVal(a), ConstValVal(b)), W)

AddReturnsModSum ==
    /\ result.tag = "val"
    /\ result.width = lhs.width
    /\ ConstValVal(result) = RefAddMod(lhs, rhs, lhs.width)

\* C2 as stated: for all constants a and b of the same width W, 0 <= W <= 128,
\* a + b returns a constant of width W whose val() is
\* (a.val() + b.val()) mod 2^W.
C2_AddAlwaysReturnsModSum ==
    (bin_op = "Add" /\ SameWidth) => AddReturnsModSum

\* C2 amended: for constants a and b of the same width W, a + b returns a
\* constant of width W whose val() is (a.val() + b.val()) mod 2^W whenever
\* a.val() + b.val() < 2^128, which is always so for W < 128; when the sum
\* reaches 2^128 (W = 128 only) the addition aborts.
C2_AddReturnsModSumUnlessContainerOverflow ==
    (bin_op = "Add" /\ SameWidth) =>
        /\ RefAddFits(lhs, rhs) => AddReturnsModSum
        /\ ~RefAddFits(lhs, rhs) => (result.tag = "abort" /\ lhs.width = U128Bits)
        /\ lhs.width < U128Bits => RefAddFits(lhs, rhs)

\* C2 witness: an addition of two width-8 constants whose sum passes 2^8 and
\* has been returned reduced modulo 2^8.
C2_Witness ==
    /\ bin_op = "Add"
    /\ SameWidth
    /\ lhs.width = LimbBits
    /\ ToNat(lhs.val) + ToNat(rhs.val) >= 2^LimbBits
    /\ result.tag = "val"
    /\ ToNat(result.val) = ToNat(lhs.val) + ToNat(rhs.val) - 2^LimbBits

\* C3 as stated: on equal-width operands add, sub and mul abort only on
\* overflow of the 128-bit container, so for a width W <= 8 no operand pair
\* aborts and a width-W constant is returned.
C3_NarrowWidthNeverAborts ==
    (bin_op \in {"Add", "Sub", "Mul"} /\ SameWidth /\ lhs.width <= LimbBits) =>
        (result.tag = "val" /\ result.width = lhs.width)

\* C15: every binary operation of the constant evaluator (arithmetic,
\* bitwise, shifts, ordering and equality) applied to two constants of
\* different widths aborts and returns no value.
C15_WidthMismatchAborts ==
    (bin_op \in BinOps /\ ~SameWidth) => result.tag = "abort"

\* constants of the widths 1 and 8 have been compared for equality, and
\* constants of the widths 3 and 128 shifted
C15_Witness ==
    /\ bin_op \in {"Eq", "Sll"}
    /\ lhs.width \in {1, NarrowMax}
    /\ rhs.width \in {LimbBits, U128Bits}
    /\ result.tag = "abort"

\* C18: on 1-bit constants a and b, eval_bin_op with Or returns 1 exactly
\* when a = 1 or b = 1, and with And returns 1 exactly when a = 1 and b = 1.
C18_LogicalOpsMatchTruthTables ==
    (bin_op \in {"And", "Or"} /\ lhs.width = 1 /\ rhs.width = 1) =>
        LET a == ConstValVal(lhs) = U(1)
            b == ConstValVal(rhs) = U(1)
        IN  /\ result.tag = "val"
            /\ result.width = 1
            /\ result.val = U(IF (IF bin_op = "Or" THEN a \/ b ELSE a /\ b)
                               THEN 1 ELSE 0)

\* C29: on equal-width operands eval_bin_op returns a value for every
\* operator other than the checked add, sub and mul and for every operand
\* pair: Div and Rem with a zero divisor and Sll, Slr and Sra with a shift
\* amount of 128 or more do not abort the fold.
C29_DivRemShiftNeverAbort ==
    (bin_op \in BinOps \ {"Add", "Sub", "Mul"} /\ SameWidth) =>
        (result.tag = "val" /\ result.width = lhs.width)

\* the arithmetic shift of the W-bit two's-complement number behind a by b:
\* floor(s / 2^b) mod 2^W, for W >= 1 and a < 2^W
RefSra(a, b, W) ==
    IF a < 2^(W - 1) THEN a \div 2^b
    ELSE 2^W - (((2^W - a) + 2^b - 1) \div 2^b)

\* C30: for constants a and b of a width W < 128, sra(a, b) fills the
\* vacated high bits with bit W-1 of a: its value is floor(s / 2^b.val())
\* mod 2^W, s being a.val() read as a W-bit two's-complement number.
C30_SraFillsWithSignBit ==
    (bin_op = "Sra" /\ SameWidth /\ lhs.width \in 1 .. NarrowMax) =>
        /\ result.tag = "val"
        /\ Fits24(result.val)
        /\ ToNat(ConstValVal(result))
               = RefSra(ToNat(ConstValVal(lhs)), ToNat(ConstValVal(rhs)),
                        lhs.width)

(***************************************************************************)
(* The netlist.  A Port is [node, port] with the output index counted from *)
(* 0; a node keeps the producer ports of its incoming edges in edge order  *)
(* (ins) and owns its outputs (outs).                                      *)
(***************************************************************************)
Port(n, k) == [node |-> n, port |-> k]
NoPort == Port(0, 0)

\* NodeOutput::wire: a width, an optional symbol ("" for None), skip set
NodeOutput(width, sym) == [width |-> width, sym |-> sym, skip |-> TRUE]

\* a node of kind `kind`; the fields a kind does not have keep these values
Node(kind, ins, outs) ==
    [kind |-> kind, ins |-> ins, outs |-> outs, skip |-> TRUE,
     mod_id |-> 0, values |-> <<>>, rev |-> FALSE, has_rst |-> FALSE,
     has_en |-> FALSE, rst_pol |-> TRUE, cases |-> <<>>, name |-> "",
     start |-> -1, is_sign |-> FALSE]

Module(name, is_top, nodes, mod_inputs, mod_outputs) ==
    [name |-> name, is_top |-> is_top, skip |-> TRUE, inline |-> FALSE,
     nodes |-> nodes, order |-> [i \in 1 .. Len(nodes) |-> i],
     mod_inputs |-> mod_inputs, mod_outputs |-> mod_outputs]

ModuleOf(nl, m) == nl.modules[m]
NodeOf(nl, m, n) == nl.modules[m].nodes[n]
OutOf(nl, m, p) == nl.modules[m].nodes[p.node].outs[p.port + 1]

\* Module::is_const: the port belongs to a Const or a MultiConst
is_const(nl, m, p) == NodeOf(nl, m, p.node).kind \in {"Const", "MultiConst"}

\* Module::outgoing(port): the nodes that consume the port
outgoing(nl, m, p) ==
    {n \in 1 .. Len(nl.modules[m].nodes) :
        \E i \in 1 .. Len(NodeOf(nl, m, n).ins) : NodeOf(nl, m, n).ins[i] = p}

\* Module::incoming(node): the producer ports of its incoming edges, in order
incoming(nl, m, n) == NodeOf(nl, m, n).ins

\* DFF inputs are clk, [rst], [en], init, data in this order
DffInitIdx(node) ==
    2 + (IF node.has_rst THEN 1 ELSE 0) + (IF node.has_en THEN 1 ELSE 0)
DffInit(node) == node.ins[DffInitIdx(node)]
DffData(node) == node.ins[DffInitIdx(node) + 1]
DffClk(node) == node.ins[1]
DffRst(node) == IF node.has_rst THEN node.ins[2] ELSE NoPort
DffEn(node) ==
    IF node.has_en THEN node.ins[IF node.has_rst THEN 3 ELSE 2] ELSE NoPort

\* ModInst::has_ports
has_ports(node) == Len(node.ins) + Len(node.outs) > 0

SetPortSkip(nl, m, p, b) ==
    [nl EXCEPT !.modules[m].nodes[p.node].outs[p.port + 1].skip = b]
SetNodeSkip(nl, m, n, b) == [nl EXCEPT !.modules[m].nodes[n].skip = b]
SetModuleSkip(nl, m, b) == [nl EXCEPT !.modules[m].skip = b]

RECURSIVE Reverse(_)
Reverse(s) == IF s = <<>> THEN <<>> ELSE Append(Reverse(Tail(s)), Head(s))

RECURSIVE SeqFilterNe(_, _)
SeqFilterNe(s, x) ==
    IF s = <<>> THEN <<>>
    ELSE IF Head(s) = x THEN SeqFilterNe(Tail(s), x)
    ELSE <<Head(s)>> \o SeqFilterNe(Tail(s), x)

\* every skip flag of the netlist: per module its own flag, and per node the
\* node's flag and the flags of its outputs
SkipFlags(nl) ==
    [m \in 1 .. Len(nl.modules) |->
        [skip |-> nl.modules[m].skip,
         nodes |-> [n \in 1 .. Len(nl.modules[m].nodes) |->
                      [skip |-> nl.modules[m].nodes[n].skip,
                       outs |-> [k \in 1 .. Len(nl.modules[m].nodes[n].outs) |->
                                   nl.modules[m].nodes[n].outs[k].skip]]]]]

(***************************************************************************)
(* Reachability                                                            *)
(***************************************************************************)
MaxRuns == 2

\* Reachability::new
ReachNew ==
    /\ ports = <<>>
    /\ modules = <<>>
    /\ handled = {}
    /\ visiting = 0
    /\ reach_pc = "new"
    /\ runs = 0
    /\ first_flags = <<>>
    /\ marked = <<>>

\* the port of a DFF's init input that visit_module leaves out of the walk
\* (NoPort: none), for the node that produces `port`
ReachExclude(nl, m, port) ==
    LET node == NodeOf(nl, m, port.node)
    IN  IF /\ node.kind = "DFF"
           /\ is_const(nl, m, DffInit(node))
           /\ \A n \in outgoing(nl, m, DffInit(node)) : n = port.node
        THEN DffInit(node)
        ELSE NoPort

\* ReachMark that also takes the excluded init edge out of the DFF
ReachMarkCuttingInit(nl, m, port) ==
    LET exclude == ReachExclude(nl, m, port)
        nl1 == IF exclude # NoPort
               THEN [SetNodeSkip(SetPortSkip(nl, m, exclude, TRUE),
                                 m, exclude.node, TRUE)
                        EXCEPT !.modules[m].nodes[port.node].ins =
                                   SeqFilterNe(@, exclude)]
               ELSE nl
    IN  SetModuleSkip(SetNodeSkip(SetPortSkip(nl1, m, port, FALSE),
                                  m, port.node, FALSE), m, FALSE)

\* the flags visit_module writes when it marks `port` live
ReachMark(nl, m, port) ==
    LET exclude == ReachExclude(nl, m, port)
        nl1 == IF exclude # NoPort
               THEN SetNodeSkip(SetPortSkip(nl, m, exclude, TRUE),
                                m, exclude.node, TRUE)
               ELSE nl
    IN  SetModuleSkip(SetNodeSkip(SetPortSkip(nl1, m, port, FALSE),
                                  m, port.node, FALSE), m, FALSE)

\* ReachPushed without the filter on the excluded init port
ReachPushedAll(nl, m, port) == incoming(nl, m, port.node)

\* the ports visit_module pushes after marking `port` live
ReachPushed(nl, m, port) ==
    LET exclude == ReachExclude(nl, m, port)
    IN  IF exclude # NoPort
        THEN SeqFilterNe(incoming(nl, m, port.node), exclude)
        ELSE incoming(nl, m, port.node)

\* whether the loop body of visit_module skips the popped port
ReachSkips(nl, m, port) ==
    \/ ~OutOf(nl, m, port).skip
    \/ OutOf(nl, m, port).width = 0
    \/ /\ NodeOf(nl, m, port.node).kind = "ModInst"
       /\ ~has_ports(NodeOf(nl, m, port.node))

\* Reachability::run, up to the loop: the top module is queued
ReachRun ==
    /\ reach_pc \in {"new", "done"}
    /\ trans_pc \in {"off", "done"}
    /\ runs < MaxRuns
    /\ reach_pc' = "run"
    /\ modules' = IF netlist.top # 0 THEN <<netlist.top>> ELSE <<>>
    /\ handled' = {}
    /\ ports' = <<>>
    /\ marked' = <<>>
    /\ UNCHANGED <<netlist, visiting, runs, first_flags>>
    /\ UNCHANGED reachFrame

\* one turn of the loop of run: a module is popped and, unless handled,
\* visit_module starts on it with the designated outputs on the stack
ReachNextModule ==
    /\ reach_pc = "run"
    /\ visiting = 0
    /\ modules # <<>>
    /\ modules' = Tail(modules)
    /\ IF Head(modules) \in handled
       THEN UNCHANGED <<visiting, ports>>
       ELSE /\ visiting' = Head(modules)
            /\ ports' = Reverse(ModuleOf(netlist, Head(modules)).mod_outputs)
    /\ UNCHANGED <<netlist, handled, reach_pc, runs, first_flags, marked>>
    /\ UNCHANGED reachFrame

\* one turn of the loop of visit_module
ReachVisitPort ==
    /\ visiting # 0
    /\ ports # <<>>
    /\ LET port == ports[Len(ports)]
           rest == SubSeq(ports, 1, Len(ports) - 1)
       IN  IF ReachSkips(netlist, visiting, port)
           THEN /\ ports' = rest
                /\ UNCHANGED <<netlist, modules, marked>>
           ELSE /\ marked' = Append(marked, [module |-> visiting, port |-> port])
                /\ modules' =
                     IF NodeOf(netlist, visiting, port.node).kind = "ModInst"
                     THEN Append(modules, NodeOf(netlist, visiting, port.node).mod_id)
                     ELSE modules
                /\ netlist' = ReachMark(netlist, visiting, port)
                /\ ports' = rest \o ReachPushed(netlist, visiting, port)
    /\ UNCHANGED <<handled, visiting, reach_pc, runs, first_flags>>
    /\ UNCHANGED reachFrame

\* visit_module returns: the module is handled
ReachModuleDone ==
    /\ visiting # 0
    /\ ports = <<>>
    /\ handled' = handled \cup {visiting}
    /\ visiting' = 0
    /\ UNCHANGED <<netlist, ports, modules, reach_pc, runs, first_flags,
                   marked>>
    /\ UNCHANGED reachFrame

\* run returns: the module queue is empty
ReachRunDone ==
    /\ reach_pc = "run"
    /\ visiting = 0
    /\ modules = <<>>
    /\ reach_pc' = "done"
    /\ runs' = runs + 1
    /\ first_flags' = IF runs = 0 THEN SkipFlags(netlist) ELSE first_flags
    /\ UNCHANGED <<netlist, ports, modules, handled, visiting, marked>>
    /\ UNCHANGED reachFrame

ReachStep ==
    \/ ReachRun
    \/ ReachNextModule
    \/ ReachVisitPort
    \/ ReachModuleDone
    \/ ReachRunDone

(***************************************************************************)
(* The netlists Reachability is run on: a top module with a clock input,   *)
(* an input a, a constant node with one or two outputs, a DFF whose init   *)
(* is one of the constant's ports, a Pass and an instantiation of a second *)
(* module; the wiring and the designated outputs vary.                     *)
(***************************************************************************)
MaxOutputs == 2

ReachSub ==
    Module("sub", FALSE,
           << Node("Input", <<>>, <<NodeOutput(1, "x")>>),
              Node("Pass", <<Port(1, 0)>>, <<NodeOutput(1, "y")>>) >>,
           <<Port(1, 0)>>, <<Port(2, 0)>>)

ReachTop(a_width, n_const, init_idx, data, pass_in, outputs) ==
    Module("top", TRUE,
           << Node("Input", <<>>, <<NodeOutput(1, "clk")>>),
              Node("Input", <<>>, <<NodeOutput(a_width, "a")>>),
              [Node(IF n_const = 1 THEN "Const" ELSE "MultiConst", <<>>,
                    [k \in 1 .. n_const |-> NodeOutput(1, "c")])
                 EXCEPT !.values = [k \in 1 .. n_const |-> 0]],
              Node("DFF", <<Port(1, 0), Port(3, init_idx), data>>,
                   <<NodeOutput(1, "q")>>),
              Node("Pass", <<pass_in>>, <<NodeOutput(1, "p")>>),
              [Node("ModInst", <<Port(2, 0)>>, <<NodeOutput(1, "m")>>)
                 EXCEPT !.mod_id = 2] >>,
           <<Port(1, 0), Port(2, 0)>>, outputs)

\* the sequences of 1 .. n distinct elements of S
RECURSIVE DistinctSeqs(_, _)
DistinctSeqs(S, n) ==
    IF n = 0 THEN {<<>>}
    ELSE LET shorter == DistinctSeqs(S, n - 1)
         IN  shorter \cup
             {Append(q, x) : q \in {t \in shorter : Len(t) = n - 1},
                             x \in S} 

HasNoRepeat(q) == \A i, j \in 1 .. Len(q) : i # j => q[i] # q[j]

ReachNetlists ==
    {[top |-> 1,
      modules |-> <<ReachTop(a_width, n_const, init_idx, data, pass_in, outputs),
                    ReachSub>>] :
        a_width \in {0, 1},
        n_const \in {1, 2},
        init_idx \in {0, 1},
        data \in {Port(4, 0), Port(2, 0), Port(5, 0), Port(3, 0)},
        pass_in \in {Port(2, 0), Port(3, 0), Port(4, 0)},
        outputs \in {q \in DistinctSeqs({Port(2, 0), Port(3, 0), Port(3, 1),
                                         Port(4, 0), Port(5, 0), Port(6, 0)},
                                        MaxOutputs) :
                        q # <<>> /\ HasNoRepeat(q)}}

\* the ports a netlist names all exist
WellFormed(nl) ==
    \A m \in 1 .. Len(nl.modules) :
        LET mod == nl.modules[m]
            Exists(p) == /\ p.node \in 1 .. Len(mod.nodes)
                         /\ p.port < Len(mod.nodes[p.node].outs)
        IN  /\ \A i \in 1 .. Len(mod.mod_outputs) : Exists(mod.mod_outputs[i])
            /\ \A n \in 1 .. Len(mod.nodes) :
                   \A i \in 1 .. Len(mod.nodes[n].ins) : Exists(mod.nodes[n].ins[i])

ReachInit ==
    /\ netlist \in {nl \in ReachNetlists : WellFormed(nl)}
    /\ ReachNew
    /\ ConstIdle
    /\ NamesIdle
    /\ TransIdle
    /\ BvIdle
    /\ GraphIdle
    /\ InlineIdle
    /\ PipeIdle

(***************************************************************************)
(* Claims about Reachability.                                              *)
(***************************************************************************)
\* every designated output of module m with a non-zero width is live, and so
\* is the node that produces it
OutputsLive(nl, m) ==
    \A i \in 1 .. Len(ModuleOf(nl, m).mod_outputs) :
        LET p == ModuleOf(nl, m).mod_outputs[i]
        IN  OutOf(nl, m, p).width # 0 =>
                (~OutOf(nl, m, p).skip /\ ~NodeOf(nl, m, p.node).skip)

\* C1 as stated: once Reachability has processed a module, every designated
\* output port of it with non-zero width has skip = false and so has its
\* producing node, for every graph shape.
C1_DesignatedOutputsLive ==
    \A m \in handled : OutputsLive(netlist, m)

\* C9 as stated: a second Reachability run on a netlist the first run has
\* processed changes no skip flag of any port, node or module.
C9_SecondRunChangesNoFlag ==
    runs >= 1 => SkipFlags(netlist) = first_flags

\* the step of visit_module that marks a DFF live whose init constant has no
\* other consumer leaves the constant skipped
InitLeftSkipped ==
    (/\ visiting # 0
     /\ ports # <<>>
     /\ NodeOf(netlist, visiting, ports[Len(ports)].node).kind = "DFF"
     /\ ~ReachSkips(netlist, visiting, ports[Len(ports)])
     /\ ReachExclude(netlist, visiting, ports[Len(ports)]) # NoPort)
        => OutOf(netlist', visiting,
                 DffInit(NodeOf(netlist, visiting, ports[Len(ports)].node))).skip

\* once the module of a live DFF has been walked, every input port of the
\* DFF but the init port is live, and so is the init port unless it is a
\* constant that only the DFF consumes
OtherInputsLive(nl, m, n) ==
    LET dff == NodeOf(nl, m, n)
    IN  \A j \in 1 .. Len(dff.ins) :
            (/\ OutOf(nl, m, dff.ins[j]).width # 0
             /\ (j = DffInitIdx(dff) => ReachExclude(nl, m, Port(n, 0)) = NoPort))
                => ~OutOf(nl, m, dff.ins[j]).skip

DffInputsWalked ==
    (runs = 1 /\ reach_pc = "done") =>
        \A m \in handled :
            \A n \in 1 .. Len(ModuleOf(netlist, m).nodes) :
                (/\ NodeOf(netlist, m, n).kind = "DFF"
                 /\ ~OutOf(netlist, m, Port(n, 0)).skip)
                    => OtherInputsLive(netlist, m, n)

\* C23: when Reachability marks a DFF live and the DFF's init input is a
\* constant port all of whose consumers are that DFF, only the init edge is
\* excluded from the backward walk: the constant is left skip = true, and
\* every other input port of the DFF (clock, reset, enable, data) is marked
\* live; when the constant has any other consumer the init port is walked
\* and marked live like the other inputs.  (A port of width 0 carries no
\* signal and is never marked.)
C23_OnlyInitEdgeExcluded == [][InitLeftSkipped]_vars /\ []DffInputsWalked

\* in module m the data input of the DFF n is the DFF's own output, or a
\* Pass of it
DataFromOwnOutput(nl, m, n) ==
    LET data == DffData(NodeOf(nl, m, n))
    IN  \/ data.node = n
        \/ /\ NodeOf(nl, m, data.node).kind = "Pass"
           /\ NodeOf(nl, m, data.node).ins[1].node = n

\* C26: Reachability terminates on every finite netlist, modules in which
\* the data input of a DFF depends on the DFF's own output included: every
\* visit_module that starts returns (its port stack empties), every run that
\* starts returns, and within a run no port is marked live twice.
C26_ReachabilityTerminates ==
    /\ (visiting # 0) ~> (visiting = 0 /\ ports = <<>>)
    /\ (reach_pc = "run") ~> (reach_pc = "done")
    /\ []HasNoRepeat(marked)

\* a run has returned on a netlist whose DFF reads its own output, directly
\* or through the Pass, after it marked the DFF, the Pass and the
\* instantiation live
C26_Witness ==
    /\ reach_pc = "done"
    /\ runs = 1
    /\ \E n \in 1 .. Len(ModuleOf(netlist, 1).nodes) :
           /\ NodeOf(netlist, 1, n).kind = "DFF"
           /\ DataFromOwnOutput(netlist, 1, n)
           /\ DffData(NodeOf(netlist, 1, n)).node # n
           /\ \E i \in 1 .. Len(marked) :
                  marked[i] = [module |-> 1, port |-> Port(n, 0)]
    /\ Len(marked) >= 6

\* the netlist with every skip flag of a module, a node and an output set:
\* the modules, their names and designated ports, the nodes, their kinds,
\* their edges in list order and the list of the nodes
Unflagged(nl) ==
    [nl EXCEPT !.modules =
        [m \in 1 .. Len(nl.modules) |->
            [nl.modules[m] EXCEPT
                !.skip = TRUE,
                !.nodes = [n \in 1 .. Len(nl.modules[m].nodes) |->
                    [nl.modules[m].nodes[n] EXCEPT
                        !.skip = TRUE,
                        !.outs = [k \in 1 .. Len(nl.modules[m].nodes[n].outs) |->
                            [nl.modules[m].nodes[n].outs[k] EXCEPT
                                !.skip = TRUE]]]]]]]

\* a step of Reachability leaves everything but skip flags as it was
ReachKeepsStructure == Unflagged(netlist') = Unflagged(netlist)

\* C14: Reachability changes nothing but skip flags: the nodes, the edges
\* and their order, the node kinds and the designated inputs and outputs of
\* every module are the same after every step of the pass, and so after
\* the pass, as before.
C14_ReachabilityChangesOnlyFlags == [][ReachKeepsStructure]_vars

\* a run has ended that marked a DFF live and left its init constant, which
\* only the DFF uses, skipped
C14_Witness ==
    /\ reach_pc = "done"
    /\ \E m \in 1 .. Len(netlist.modules) :
       \E n \in 1 .. Len(ModuleOf(netlist, m).nodes) :
           /\ NodeOf(netlist, m, n).kind = "DFF"
           /\ ~NodeOf(netlist, m, n).skip
           /\ ReachExclude(netlist, m, Port(n, 0)) # NoPort
           /\ NodeOf(netlist, m, ReachExclude(netlist, m, Port(n, 0)).node).skip

(***************************************************************************)
(* Set-Names                                                               *)
(***************************************************************************)
\* DEFAULT_SYMBOLS: the spellings that are replaced before a name is made
DEFAULT_SYMBOLS(sym) ==
    CASE sym = "input" -> "input$"
      [] sym = "output" -> "output$"
      [] sym = "reg" -> "reg$"
      [] sym = "self" -> "self$"
      [] OTHER -> sym

\* HashMap::get(..).copied(): -1 stands for None
GetCount(map, key) == IF key \in DOMAIN map THEN map[key] ELSE -1

\* HashMap::insert
InsertCount(map, key, count) ==
    [k \in DOMAIN map \cup {key} |-> IF k = key THEN count ELSE map[k]]

\* ident with a counter that gives the first use the suffix 1
ident_from_one(sym, count) ==
    [sym |-> DEFAULT_SYMBOLS(sym),
     count |-> IF count = -1 THEN 1 ELSE count + 1]

\* SetNames::ident
ident(sym, count) ==
    [sym |-> DEFAULT_SYMBOLS(sym),
     count |-> IF count = -1 THEN 0 ELSE count + 1]

\* make_sym with a suffix that is not the same in every run
make_sym_by_run(sym, count) ==
    IF count = 0 THEN sym ELSE sym \o "_" \o ToString(count + pipe_run)

\* SetNames::make_sym
make_sym(sym, count) ==
    IF count = 0 THEN sym ELSE sym \o "_" \o ToString(count)

\* SetNames::set_module_name: the netlist and module_idents it leaves
set_module_name(nl, mids, module_id) ==
    LET sym == ModuleOf(nl, module_id).name
        id == ident(sym, GetCount(mids, sym))
    IN  [nl |-> [nl EXCEPT !.modules[module_id].name = make_sym(id.sym, id.count)],
         module_idents |-> InsertCount(mids, sym, id.count)]

\* the loop of set_node_out_names over the outputs k .. of the node
RECURSIVE SetOutNames(_, _, _, _, _)
SetOutNames(nl, ids, module_id, node_id, k) ==
    IF k > Len(NodeOf(nl, module_id, node_id).outs)
    THEN [nl |-> nl, idents |-> ids]
    ELSE LET out == NodeOf(nl, module_id, node_id).outs[k]
             sym == IF out.sym = "" THEN "__tmp" ELSE out.sym
             id == ident(sym, GetCount(ids, <<module_id, sym>>))
         IN  SetOutNames(
                 [nl EXCEPT !.modules[module_id].nodes[node_id].outs[k].sym =
                                make_sym(id.sym, id.count)],
                 InsertCount(ids, <<module_id, sym>>, id.count),
                 module_id, node_id, k + 1)

\* SetNames::set_node_out_names: the output names, then the name of an
\* instantiation that has none
set_node_out_names(nl, ids, module_id, node_id) ==
    LET named == SetOutNames(nl, ids, module_id, node_id, 1)
        node == NodeOf(named.nl, module_id, node_id)
    IN  IF node.kind = "ModInst" /\ node.name = ""
        THEN LET sym == "__" \o ModuleOf(named.nl, node.mod_id).name
                 id == ident(sym, GetCount(named.idents, <<module_id, sym>>))
             IN  [nl |-> [named.nl EXCEPT
                            !.modules[module_id].nodes[node_id].name =
                                make_sym(id.sym, id.count)],
                  idents |-> InsertCount(named.idents, <<module_id, sym>>,
                                         id.count)]
        ELSE named

\* SetNames::new
NamesNew ==
    /\ idents = NoIdents
    /\ module_idents = NoIdents
    /\ names_pc = "new"
    /\ names_mod = 0
    /\ names_node = 0

\* SetNames::run: visit_modules starts with the first module
NamesRun ==
    /\ names_pc = "new"
    /\ names_pc' = "modules"
    /\ names_mod' = 1
    /\ UNCHANGED <<netlist, idents, module_idents, names_node>>
    /\ UNCHANGED namesFrame

\* one turn of the loop of visit_modules up to the node loop of visit_module:
\* a skipped module is passed over, any other gets its name
NamesVisitModule ==
    /\ names_pc = "modules"
    /\ names_mod <= Len(netlist.modules)
    /\ IF ModuleOf(netlist, names_mod).skip
       THEN /\ names_mod' = names_mod + 1
            /\ UNCHANGED <<netlist, module_idents, names_pc, names_node>>
       ELSE LET named == set_module_name(netlist, module_idents, names_mod)
            IN  /\ netlist' = named.nl
                /\ module_idents' = named.module_idents
                /\ names_pc' = "nodes"
                /\ names_node' = 1
                /\ UNCHANGED names_mod
    /\ UNCHANGED idents
    /\ UNCHANGED namesFrame

\* one turn of the node loop of visit_module
NamesVisitNode ==
    /\ names_pc = "nodes"
    /\ names_node <= Len(ModuleOf(netlist, names_mod).order)
    /\ LET node_id == ModuleOf(netlist, names_mod).order[names_node]
       IN  IF NodeOf(netlist, names_mod, node_id).skip
           THEN UNCHANGED <<netlist, idents>>
           ELSE LET named == set_node_out_names(netlist, idents, names_mod,
                                                node_id)
                IN  /\ netlist' = named.nl
                    /\ idents' = named.idents
    /\ names_node' = names_node + 1
    /\ UNCHANGED <<module_idents, names_pc, names_mod>>
    /\ UNCHANGED namesFrame

\* visit_module returns: the cursor is past the last node
NamesModuleDone ==
    /\ names_pc = "nodes"
    /\ names_node > Len(ModuleOf(netlist, names_mod).order)
    /\ names_pc' = "modules"
    /\ names_mod' = names_mod + 1
    /\ names_node' = 0
    /\ UNCHANGED <<netlist, idents, module_idents>>
    /\ UNCHANGED namesFrame

\* run returns: every module has been passed
NamesDone ==
    /\ names_pc = "modules"
    /\ names_mod > Len(netlist.modules)
    /\ names_pc' = "done"
    /\ UNCHANGED <<netlist, idents, module_idents, names_mod, names_node>>
    /\ UNCHANGED namesFrame

NamesStep ==
    \/ NamesRun
    \/ NamesVisitModule
    \/ NamesVisitNode
    \/ NamesModuleDone
    \/ NamesDone

(***************************************************************************)
(* The netlists Set-Names is run on: two modules; the first has            *)
(* MaxNamedNodes nodes with one output each, live or not, and an           *)
(* instantiation of the second.  The modules' names and the outputs'       *)
(* symbols are taken from a few spellings, among them a reserved one, the  *)
(* spelling it is replaced by, and one that ends in a numeric suffix.      *)
(***************************************************************************)
MaxNamedNodes == 2

OutSyms == {"", "tmp", "tmp_1", "input", "input$"}
ModuleNames == {"m", "reg", "reg$"}

NamedNode(sym, skip) ==
    [Node("Pass", <<>>, <<[NodeOutput(1, sym) EXCEPT !.skip = skip]>>)
        EXCEPT !.skip = skip]

NamedInst(sym, name) ==
    [Node("ModInst", <<>>, <<[NodeOutput(1, sym) EXCEPT !.skip = FALSE]>>)
        EXCEPT !.skip = FALSE, !.mod_id = 2, !.name = name]

\* the sequence q with x put in at position pos
InsertAt(q, pos, x) ==
    SubSeq(q, 1, pos - 1) \o <<x>> \o SubSeq(q, pos, Len(q))

\* the instantiated module may also be called "tmp", so that the name of an
\* instantiation of it is made of the placeholder of the unnamed outputs
NamesNetlists ==
    {[top |-> 1,
      modules |->
        << [Module(top_name, TRUE,
                   InsertAt([i \in 1 .. MaxNamedNodes |->
                                NamedNode(syms[i], skips[i])],
                            inst_pos, NamedInst(inst_sym, inst_name)),
                   <<>>, <<>>) EXCEPT !.skip = FALSE],
           [Module(sub_name, FALSE, <<NamedNode("x", FALSE)>>, <<>>, <<>>)
               EXCEPT !.skip = sub_skip] >>] :
        top_name \in ModuleNames, sub_name \in ModuleNames \cup {"tmp"},
        sub_skip \in BOOLEAN,
        syms \in [1 .. MaxNamedNodes -> OutSyms],
        skips \in [1 .. MaxNamedNodes -> BOOLEAN],
        inst_pos \in {1, MaxNamedNodes + 1},
        inst_sym \in {"tmp"}, inst_name \in {"", "inst"}}

\* netlist0 keeps the netlist as it was handed to SetNames::new
NamesInit ==
    /\ netlist \in NamesNetlists
    /\ NamesNew
    /\ ConstIdle
    /\ ReachIdle
    /\ TransOff
    /\ netlist0 = netlist
    /\ BvIdle
    /\ GraphIdle
    /\ InlineIdle
    /\ PipeIdle

(***************************************************************************)
(* Claims about Set-Names.                                                 *)
(***************************************************************************)
\* the outputs of the live nodes of module m, as <<node, output index>>
LiveOutputs(nl, m) ==
    UNION {{<<n, k>> : k \in {j \in 1 .. Len(nl.modules[m].nodes[n].outs) :
                                ~nl.modules[m].nodes[n].outs[j].skip}} :
           n \in {i \in 1 .. Len(nl.modules[m].nodes) :
                     ~nl.modules[m].nodes[i].skip}}

LiveModules(nl) == {m \in 1 .. Len(nl.modules) : ~nl.modules[m].skip}

OutputNamesUnique(nl, m) ==
    \A a, b \in LiveOutputs(nl, m) :
        a # b => nl.modules[m].nodes[a[1]].outs[a[2]].sym #
                 nl.modules[m].nodes[b[1]].outs[b[2]].sym

ModuleNamesUnique(nl) ==
    \A a, b \in LiveModules(nl) :
        a # b => nl.modules[a].name # nl.modules[b].name

\* C4 as stated: after Set-Names, for every initial assignment of display
\* symbols, no two live node outputs of the same module carry the same final
\* name, and no two live modules carry the same final name.
C4_FinalNamesUnique ==
    names_pc = "done" =>
        /\ \A m \in LiveModules(netlist) : OutputNamesUnique(netlist, m)
        /\ ModuleNamesUnique(netlist)

\* the symbol an output asks for: its own, or the placeholder
RequestedSym(out) == IF out.sym = "" THEN "__tmp" ELSE out.sym

\* the symbol the name of an unnamed instantiation in module m is made of:
\* the name its module has when the instantiation is visited, which is the
\* new name when that module was visited before
InstSym(nl0, nl, m, node) ==
    "__" \o (IF node.mod_id <= m /\ ~nl0.modules[node.mod_id].skip
             THEN nl.modules[node.mod_id].name
             ELSE nl0.modules[node.mod_id].name)

\* the number of outputs of live nodes of module m that ask for symbol s
\* before output k of the node at position j of the list
OutRequestsBefore(nl0, m, j, k, s) ==
    Cardinality(
        UNION {{<<j2, k2>> :
                  k2 \in {x \in 1 .. Len(nl0.modules[m].nodes[
                                            nl0.modules[m].order[j2]].outs) :
                            /\ j2 < j \/ x < k
                            /\ RequestedSym(nl0.modules[m].nodes[
                                   nl0.modules[m].order[j2]].outs[x]) = s}} :
               j2 \in {y \in 1 .. j :
                         ~nl0.modules[m].nodes[nl0.modules[m].order[y]].skip}})

\* the number of live unnamed instantiations before position j of the list
\* of module m whose name is made of symbol s
InstRequestsBefore(nl0, nl, m, j, s) ==
    Cardinality({j2 \in 1 .. j - 1 :
        LET node == nl0.modules[m].nodes[nl0.modules[m].order[j2]]
        IN  /\ ~node.skip
            /\ node.kind = "ModInst"
            /\ node.name = ""
            /\ InstSym(nl0, nl, m, node) = s})

\* the positions of the live nodes in the list of module m
LivePositions(nl0, m) ==
    {j \in 1 .. Len(nl0.modules[m].order) :
        ~nl0.modules[m].nodes[nl0.modules[m].order[j]].skip}

\* the number of live modules before module m that ask for name s
ModuleRequestsBefore(nl0, m, s) ==
    Cardinality({m2 \in 1 .. m - 1 :
                    ~nl0.modules[m2].skip /\ nl0.modules[m2].name = s})

\* every live module is named after its rank among the live modules that
\* ask for the same name
ModulesNamedByRank ==
    \A m \in LiveModules(netlist0) :
        netlist.modules[m].name =
            make_sym(DEFAULT_SYMBOLS(netlist0.modules[m].name),
                     ModuleRequestsBefore(netlist0, m,
                                          netlist0.modules[m].name))

\* every output of a live node of a live module is named after a rank
\* that counts the outputs before it that ask for the same symbol and,
\* when with_insts, the unnamed instantiations whose name is made of it
OutputsNamedByRank(with_insts) ==
    \A m \in LiveModules(netlist0) :
        \A j \in LivePositions(netlist0, m) :
            LET n == netlist0.modules[m].order[j]
            IN  \A k \in 1 .. Len(netlist0.modules[m].nodes[n].outs) :
                    LET s == RequestedSym(netlist0.modules[m].nodes[n].outs[k])
                    IN  netlist.modules[m].nodes[n].outs[k].sym =
                            make_sym(DEFAULT_SYMBOLS(s),
                                OutRequestsBefore(netlist0, m, j, k, s) +
                                (IF with_insts
                                 THEN InstRequestsBefore(netlist0, netlist,
                                                         m, j, s)
                                 ELSE 0))

\* C11 as stated: within one module, the k-th output of a live node in list
\* order that asks for base symbol s is named s' when k = 1 and s'_(k-1)
\* when k > 1, s' being s remapped through the reserved-name table and an
\* unnamed output asking for __tmp; the same rule names the modules.
C11_KthRequestGetsSuffix ==
    names_pc = "done" =>
        /\ OutputsNamedByRank(FALSE)
        /\ ModulesNamedByRank

\* C11 amended: the rank of an output counts, besides the outputs of live
\* nodes before it in list order that ask for the same base symbol, the
\* unnamed live instantiations before its node whose name is made of that
\* symbol (__ and the name of the instantiated module); the output is named
\* s' at rank 1 and s'_(rank-1) above; modules are named by their rank among
\* the live modules asking for the same name.
C11_KthRequestCountingInstances ==
    names_pc = "done" =>
        /\ OutputsNamedByRank(TRUE)
        /\ ModulesNamedByRank

\* two live outputs ask for "input" and the second is named input$_1, while
\* an unnamed instantiation of module "tmp" comes before an unnamed output
C11_Witness ==
    /\ names_pc = "done"
    /\ netlist0.modules[1].nodes[1].kind = "ModInst"
    /\ netlist0.modules[1].nodes[1].name = ""
    /\ netlist0.modules[2].name = "tmp"
    /\ netlist0.modules[1].nodes[2].outs[1].sym = ""
    /\ ~netlist0.modules[1].nodes[2].skip
    /\ netlist.modules[1].nodes[2].outs[1].sym = "__tmp_1"
    /\ netlist0.modules[1].nodes[1].outs[1].sym = "tmp"
    /\ netlist0.modules[1].nodes[3].outs[1].sym = "tmp"
    /\ ~netlist0.modules[1].nodes[3].skip
    /\ netlist.modules[1].nodes[3].outs[1].sym = "tmp_1"
    /\ netlist0.modules[1].name = "reg"
    /\ netlist.modules[1].name = "reg$"

(***************************************************************************)
(* Transform: the operations on a module it is built from.                 *)
(***************************************************************************)
\* Module::to_const: the value of a port of a Const or MultiConst, -1 for
\* None
to_const(nl, m, p) ==
    IF is_const(nl, m, p) THEN NodeOf(nl, m, p.node).values[p.port + 1] ELSE -1

InSeq(x, q) == \E i \in 1 .. Len(q) : q[i] = x

is_mod_output(nl, m, p) == InSeq(p, ModuleOf(nl, m).mod_outputs)
is_mod_input(nl, m, p) == InSeq(p, ModuleOf(nl, m).mod_inputs)

\* Graph::reconnect_all_outgoing: every edge that leaves old_port leaves
\* new_port instead, at the same place of its consumer's incoming list
reconnect_port(nl, m, old_port, new_port) ==
    [nl EXCEPT !.modules[m].nodes =
        [n \in 1 .. Len(@) |->
            [@[n] EXCEPT !.ins =
                [i \in 1 .. Len(@) |->
                    IF @[i] = old_port THEN new_port ELSE @[i]]]]]

\* Module::reconnect_all_outgoing(node_id, new_ports): output k of the node
\* is paired with the k-th new port, as far as both go
RECURSIVE ReconnectFrom(_, _, _, _, _)
ReconnectFrom(nl, m, node_id, new_ports, k) ==
    IF k > Len(new_ports) \/ k > Len(NodeOf(nl, m, node_id).outs)
    THEN nl
    ELSE ReconnectFrom(reconnect_port(nl, m, Port(node_id, k - 1), new_ports[k]),
                       m, node_id, new_ports, k + 1)

reconnect_all_outgoing(nl, m, node_id, new_ports) ==
    ReconnectFrom(nl, m, node_id, new_ports, 1)

\* Module::reconnect(node_id): the consumers of a node with one input and one
\* output are fed by the node's input
reconnect(nl, m, node_id) ==
    reconnect_all_outgoing(nl, m, node_id, <<NodeOf(nl, m, node_id).ins[1]>>)

\* Module::replace: the node keeps its id, its place in the list, its skip
\* flag and the edges that leave it; its kind, inputs and outputs are new
replace(nl, m, node_id, node) ==
    [nl EXCEPT !.modules[m].nodes[node_id] =
        [node EXCEPT !.skip = nl.modules[m].nodes[node_id].skip]]

\* ConstArgs for an output: its type and symbol, with a value
ConstArgs(out, value) == [width |-> out.width, sym |-> out.sym, value |-> value]

\* Const / MultiConst made from a sequence of ConstArgs
MultiConstNode(args) ==
    [Node("MultiConst", <<>>,
          [k \in 1 .. Len(args) |-> NodeOutput(args[k].width, args[k].sym)])
        EXCEPT !.values = [k \in 1 .. Len(args) |-> args[k].value]]

ConstNode(arg) ==
    [Node("Const", <<>>, <<NodeOutput(arg.width, arg.sym)>>)
        EXCEPT !.values = <<arg.value>>]

\* ConstVal::new(val, width).val() on the values of the netlists below
Masked(val, width) == val % (2^width)

\* the successor of a node in the list of its module, 0 at the end
PosIn(order, node_id) == CHOOSE i \in 1 .. Len(order) : order[i] = node_id
NextIn(order, node_id) ==
    IF PosIn(order, node_id) = Len(order) THEN 0
    ELSE order[PosIn(order, node_id) + 1]
FirstIn(order) == IF order = <<>> THEN 0 ELSE order[1]

\* the sum of the widths of the first k outputs
RECURSIVE SumWidths(_, _)
SumWidths(outs, k) ==
    IF k = 0 THEN 0 ELSE outs[k].width + SumWidths(outs, k - 1)

(***************************************************************************)
(* Transform::transform, one operator per node kind.  Each takes and       *)
(* returns a record st = [nl, cons, inline]: the netlist, the              *)
(* value-numbering table and the answer of transform.                      *)
(***************************************************************************)
\* Transform::eliminate_const for the constant port `port` of value val
eliminate_const(st, c, m, val, port) ==
    LET key == <<m, val, OutOf(st.nl, m, port).width>>
    IN  IF c.no_eliminate_const \/ is_mod_output(st.nl, m, port)
        THEN st
        ELSE IF key \in DOMAIN st.cons
             THEN [st EXCEPT !.nl = reconnect_all_outgoing(st.nl, m, port.node,
                                                           <<st.cons[key]>>)]
             ELSE [st EXCEPT !.cons = InsertCount(st.cons, key, port)]

\* Transform::eliminate_multi_const, the outputs idx .. of the node
RECURSIVE EliminateFrom(_, _, _, _, _)
EliminateFrom(st, c, m, node_id, idx) ==
    IF idx >= Len(NodeOf(st.nl, m, node_id).outs)
    THEN st
    ELSE EliminateFrom(
             eliminate_const(st, c, m,
                             Masked(NodeOf(st.nl, m, node_id).values[idx + 1],
                                    NodeOf(st.nl, m, node_id).outs[idx + 1].width),
                             Port(node_id, idx)),
             c, m, node_id, idx + 1)

eliminate_multi_const(st, c, m, node_id) ==
    IF c.no_eliminate_const THEN st ELSE EliminateFrom(st, c, m, node_id, 0)

\* the arms NodeKind::Const and NodeKind::MultiConst
TransformConst(st, c, m, node_id) ==
    LET node == NodeOf(st.nl, m, node_id)
    IN  IF node.kind = "Const"
        THEN eliminate_const(st, c, m, Masked(node.values[1], node.outs[1].width),
                             Port(node_id, 0))
        ELSE eliminate_multi_const(st, c, m, node_id)

\* Transform::replace_with_const / replace_with_multi_const: the node is
\* replaced and the replacement is transformed in turn
replace_with_multi_const(st, c, m, node_id, args) ==
    TransformConst([st EXCEPT !.nl = replace(st.nl, m, node_id, MultiConstNode(args))],
                   c, m, node_id)

replace_with_const(st, c, m, node_id, arg) ==
    TransformConst([st EXCEPT !.nl = replace(st.nl, m, node_id, ConstNode(arg))],
                   c, m, node_id)

\* the arm NodeKind::Pass
TransformPass(st, c, m, node_id) ==
    LET node == NodeOf(st.nl, m, node_id)
        input == node.ins[1]
    IN  IF to_const(st.nl, m, input) # -1
        THEN [st EXCEPT !.nl =
                replace(st.nl, m, node_id,
                        ConstNode(ConstArgs(node.outs[1],
                            Masked(to_const(st.nl, m, input),
                                   OutOf(st.nl, m, input).width))))]
        ELSE IF /\ ~is_mod_output(st.nl, m, Port(node_id, 0))
                /\ ~is_mod_input(st.nl, m, input)
                /\ OutOf(st.nl, m, input).width = node.outs[1].width
             THEN [st EXCEPT !.nl = reconnect(st.nl, m, node_id)]
             ELSE st

\* Module::has_const_outputs: every designated output is a constant port
has_const_outputs(nl, m) ==
    \A i \in 1 .. Len(ModuleOf(nl, m).mod_outputs) :
        is_const(nl, m, ModuleOf(nl, m).mod_outputs[i])

\* Module::node_has_const_inputs
node_has_const_inputs(nl, m, node_id) ==
    \A i \in 1 .. Len(NodeOf(nl, m, node_id).ins) :
        is_const(nl, m, NodeOf(nl, m, node_id).ins[i])

NODES_LIMIT_TO_INLINE == 10

\* the decision of the arm NodeKind::ModInst for the policy of the netlist
InlinePolicy(nl, c, m, node_id) ==
    LET orig == NodeOf(nl, m, node_id).mod_id
    IN  CASE c.inline_mod = "All" -> TRUE
          [] c.inline_mod = "Auto" ->
                \/ ModuleOf(nl, orig).inline
                \/ Len(ModuleOf(nl, m).mod_inputs) = 0
                \/ Len(ModuleOf(nl, m).mod_outputs) = 0
                \/ Len(ModuleOf(nl, m).order) <= NODES_LIMIT_TO_INLINE
                \/ node_has_const_inputs(nl, m, node_id)
          [] OTHER -> FALSE

\* the arm NodeKind::ModInst
TransformModInst(st, c, m, node_id) ==
    LET orig == NodeOf(st.nl, m, node_id).mod_id
        outputs == ModuleOf(st.nl, orig).mod_outputs
    IN  IF has_const_outputs(st.nl, orig)
        THEN replace_with_multi_const(st, c, m, node_id,
                 [k \in 1 .. Len(outputs) |->
                     ConstArgs(OutOf(st.nl, orig, outputs[k]),
                               Masked(to_const(st.nl, orig, outputs[k]),
                                      OutOf(st.nl, orig, outputs[k]).width))])
        ELSE [st EXCEPT !.inline = InlinePolicy(st.nl, c, m, node_id)]

\* Splitter::pass_all_bits: one output that spans the whole input
pass_all_bits(nl, m, node_id) ==
    LET node == NodeOf(nl, m, node_id)
    IN  /\ Len(node.outs) = 1
        /\ node.outs[1].width = OutOf(nl, m, node.ins[1]).width
        /\ node.start \in {-1, 0}

\* Splitter::eval_indices: the lowest bit of the input that output k takes.
\* Without rev the outputs are cut upwards from start (or bit 0), with rev
\* downwards from start (or the top of the input).
SplitterIndex(nl, m, node_id, k) ==
    LET node == NodeOf(nl, m, node_id)
    IN  IF node.rev
        THEN (IF node.start = -1 THEN OutOf(nl, m, node.ins[1]).width
              ELSE node.start) - SumWidths(node.outs, k)
        ELSE (IF node.start = -1 THEN 0 ELSE node.start)
             + SumWidths(node.outs, k - 1)

\* Module::is_reversible: the splitter cuts, from the end it starts at and
\* without an explicit start, exactly the pieces the merger has put together
is_reversible(nl, m, merger_id, splitter_id) ==
    LET merger == NodeOf(nl, m, merger_id)
        splitter == NodeOf(nl, m, splitter_id)
    IN  /\ splitter.start = -1
        /\ Len(splitter.outs) = Len(merger.ins)
        /\ \A k \in 1 .. Len(merger.ins) :
               splitter.outs[k].width = OutOf(nl, m, merger.ins[k]).width

\* Module::reconnect_from_inputs_to_outputs: output k of the splitter is
\* replaced by a Pass of the merger's k-th input that carries the output's
\* symbol; the Pass nodes take the splitter's place in the list, its
\* consumers and its places among the designated outputs
PassFor(nl, m, merger_id, splitter_id, k) ==
    Node("Pass", <<NodeOf(nl, m, merger_id).ins[k]>>,
         <<NodeOutput(NodeOf(nl, m, splitter_id).outs[k].width,
                      NodeOf(nl, m, splitter_id).outs[k].sym)>>)

ReplaceInSeq(q, from, to) ==
    [i \in 1 .. Len(q) |-> IF q[i] = from THEN to ELSE q[i]]

RECURSIVE MoveOutputs(_, _, _, _, _)
MoveOutputs(nl, m, splitter_id, base, k) ==
    IF k = 0 THEN nl
    ELSE LET moved == reconnect_port(MoveOutputs(nl, m, splitter_id, base, k - 1),
                                     m, Port(splitter_id, k - 1),
                                     Port(base + k, 0))
         IN  [moved EXCEPT !.modules[m].mod_outputs =
                 ReplaceInSeq(@, Port(splitter_id, k - 1), Port(base + k, 0))]

reconnect_from_inputs_to_outputs(nl, m, merger_id, splitter_id) ==
    LET mod == ModuleOf(nl, m)
        n == Len(NodeOf(nl, m, splitter_id).outs)
        base == Len(mod.nodes)
        pos == PosIn(mod.order, splitter_id)
        added == [nl EXCEPT
                    !.modules[m].nodes =
                        @ \o [k \in 1 .. n |->
                                 PassFor(nl, m, merger_id, splitter_id, k)],
                    !.modules[m].order =
                        SubSeq(@, 1, pos - 1) \o [k \in 1 .. n |-> base + k]
                            \o SubSeq(@, pos + 1, Len(@)),
                    !.modules[m].nodes[splitter_id].kind = "Removed",
                    !.modules[m].nodes[splitter_id].ins = <<>>]
    IN  MoveOutputs(added, m, splitter_id, base, n)

\* the slice of a constant input that output k of the splitter takes
SplitterSlice(nl, m, node_id, k) ==
    Masked(to_const(nl, m, NodeOf(nl, m, node_id).ins[1])
               \div (2^SplitterIndex(nl, m, node_id, k)),
           NodeOf(nl, m, node_id).outs[k].width)

\* the Splitter arm without the cancellation of a Merger
TransformSplitterNoCancel(st, c, m, node_id) ==
    LET node == NodeOf(st.nl, m, node_id)
        input == node.ins[1]
    IN  IF pass_all_bits(st.nl, m, node_id)
        THEN [st EXCEPT !.nl = reconnect(st.nl, m, node_id)]
        ELSE IF to_const(st.nl, m, input) # -1
        THEN replace_with_multi_const(st, c, m, node_id,
                 [k \in 1 .. Len(node.outs) |->
                     ConstArgs(node.outs[k],
                               SplitterSlice(st.nl, m, node_id, k))])
        ELSE st

\* the arm NodeKind::Splitter
TransformSplitter(st, c, m, node_id) ==
    LET node == NodeOf(st.nl, m, node_id)
        input == node.ins[1]
    IN  IF pass_all_bits(st.nl, m, node_id)
        THEN [st EXCEPT !.nl = reconnect(st.nl, m, node_id)]
        ELSE IF to_const(st.nl, m, input) # -1
        THEN replace_with_multi_const(st, c, m, node_id,
                 [k \in 1 .. Len(node.outs) |->
                     ConstArgs(node.outs[k],
                               SplitterSlice(st.nl, m, node_id, k))])
        ELSE IF /\ NodeOf(st.nl, m, input.node).kind = "Merger"
                /\ node.rev # NodeOf(st.nl, m, input.node).rev
                /\ is_reversible(st.nl, m, input.node, node_id)
        THEN [st EXCEPT !.nl = reconnect_from_inputs_to_outputs(
                                   st.nl, m, input.node, node_id)]
        ELSE st

\* ConstVal::shift applied to the inputs 1 .. k of a merger, starting from
\* ConstVal::new(0, 0): [val, width]
RECURSIVE ShiftIn(_, _, _, _)
ShiftIn(nl, m, ins, k) ==
    IF k = 0 THEN [val |-> 0, width |-> 0]
    ELSE LET acc == ShiftIn(nl, m, ins, k - 1)
             w == OutOf(nl, m, ins[k]).width
         IN  [val |-> acc.val * (2^w) + (to_const(nl, m, ins[k]) % (2^w)),
              width |-> acc.width + w]

\* the arm NodeKind::Merger
TransformMerger(st, c, m, node_id) ==
    LET node == NodeOf(st.nl, m, node_id)
        val == ShiftIn(st.nl, m, node.ins, Len(node.ins))
    IN  IF \A i \in 1 .. Len(node.ins) : to_const(st.nl, m, node.ins[i]) # -1
        THEN replace_with_const(st, c, m, node_id,
                 ConstArgs(node.outs[1], Masked(val.val, val.width)))
        ELSE st

\* SwitchInputs: the selector, and per case the ports of its values
SwitchSel(node) == node.ins[1]
SwitchChunk(node, case) ==
    SubSeq(node.ins, 2 + (case - 1) * Len(node.outs), 1 + case * Len(node.outs))

\* Case::is_match
is_match(case, sel) == case.default \/ case.val = sel

\* the chunk chosen by the selector alone, whatever the number of cases
SwitchTargetBySelector(nl, m, node_id) ==
    LET node == NodeOf(nl, m, node_id)
        sel == to_const(nl, m, SwitchSel(node))
        matching == {i \in 1 .. Len(node.cases) : is_match(node.cases[i], sel)}
    IN  IF sel # -1 /\ matching # {}
        THEN SwitchChunk(node, CHOOSE i \in matching : \A j \in matching : i <= j)
        ELSE <<>>

\* the chunk the arm NodeKind::Switch reconnects to, <<>> for none
SwitchTarget(nl, m, node_id) ==
    LET node == NodeOf(nl, m, node_id)
        sel == to_const(nl, m, SwitchSel(node))
        matching == {i \in 1 .. Len(node.cases) : is_match(node.cases[i], sel)}
    IN  IF Len(node.cases) = 1 THEN SwitchChunk(node, 1)
        ELSE IF sel # -1 /\ matching # {}
        THEN SwitchChunk(node, CHOOSE i \in matching : \A j \in matching : i <= j)
        ELSE <<>>

\* the arm NodeKind::Switch
TransformSwitch(st, c, m, node_id) ==
    IF SwitchTarget(st.nl, m, node_id) # <<>>
    THEN [st EXCEPT !.nl = reconnect_all_outgoing(st.nl, m, node_id,
                               SwitchTarget(st.nl, m, node_id))]
    ELSE st

\* Polarity::bool: the level as is for active high, inverted for active low
PolarityBool(rst_pol, b) == IF rst_pol THEN b ELSE ~b

\* the arm NodeKind::DFF
TransformDFF(st, c, m, node_id) ==
    LET dff == NodeOf(st.nl, m, node_id)
        rst_val == IF dff.has_rst THEN to_const(st.nl, m, DffRst(dff)) ELSE -1
        en_val == IF dff.has_en THEN to_const(st.nl, m, DffEn(dff)) ELSE -1
        drop_rst == rst_val # -1 /\ PolarityBool(dff.rst_pol, rst_val = 0)
        true_rst == rst_val # -1 /\ ~PolarityBool(dff.rst_pol, rst_val = 0)
        drop_en == en_val # -1 /\ en_val > 0
        false_en == en_val # -1 /\ ~(en_val > 0)
        keep_rst == dff.has_rst /\ ~drop_rst
        keep_en == dff.has_en /\ ~drop_en
        new_dff == [Node("DFF",
                         <<DffClk(dff)>>
                             \o (IF keep_rst THEN <<DffRst(dff)>> ELSE <<>>)
                             \o (IF keep_en THEN <<DffEn(dff)>> ELSE <<>>)
                             \o <<DffInit(dff), DffData(dff)>>,
                         <<NodeOutput(dff.outs[1].width, dff.outs[1].sym)>>)
                      EXCEPT !.has_rst = keep_rst, !.has_en = keep_en,
                             !.rst_pol = dff.rst_pol]
    IN  IF drop_rst \/ drop_en
        THEN [st EXCEPT !.nl = replace(st.nl, m, node_id, new_dff)]
        ELSE IF true_rst \/ false_en
        THEN [st EXCEPT !.nl = reconnect_all_outgoing(st.nl, m, node_id,
                                                      <<DffInit(dff)>>)]
        ELSE st

\* the arm NodeKind::BitNot: impl Not for ConstVal is
\* ConstVal::new(!self.val, self.width)
TransformBitNot(st, c, m, node_id) ==
    LET node == NodeOf(st.nl, m, node_id)
        input == node.ins[1]
        w == OutOf(st.nl, m, input).width
    IN  IF to_const(st.nl, m, input) # -1
        THEN replace_with_const(st, c, m, node_id,
                 ConstArgs(node.outs[1],
                           (2^w) - 1 - Masked(to_const(st.nl, m, input), w)))
        ELSE st

\* the arm NodeKind::Extend: the value of the constant input goes into a
\* Const of the output's type as it is
TransformExtend(st, c, m, node_id) ==
    LET node == NodeOf(st.nl, m, node_id)
        input == node.ins[1]
    IN  IF to_const(st.nl, m, input) # -1
        THEN replace_with_const(st, c, m, node_id,
                 ConstArgs(node.outs[1],
                           Masked(to_const(st.nl, m, input),
                                  OutOf(st.nl, m, input).width)))
        ELSE IF OutOf(st.nl, m, input).width = node.outs[1].width
        THEN [st EXCEPT !.nl = reconnect(st.nl, m, node_id)]
        ELSE st

\* Transform::transform
transform(st, c, m, node_id) ==
    LET kind == NodeOf(st.nl, m, node_id).kind
    IN  CASE kind = "Pass" -> TransformPass(st, c, m, node_id)
          [] kind \in {"Const", "MultiConst"} -> TransformConst(st, c, m, node_id)
          [] kind = "ModInst" -> TransformModInst(st, c, m, node_id)
          [] kind = "Splitter" -> TransformSplitter(st, c, m, node_id)
          [] kind = "Merger" -> TransformMerger(st, c, m, node_id)
          [] kind = "BitNot" -> TransformBitNot(st, c, m, node_id)
          [] kind = "Extend" -> TransformExtend(st, c, m, node_id)
          [] kind = "Switch" -> TransformSwitch(st, c, m, node_id)
          [] kind = "DFF" -> TransformDFF(st, c, m, node_id)
          [] OTHER -> st

(***************************************************************************)
(* Module::inline_mod: the nodes of the instantiated module are copied     *)
(* into the caller in the place of the instantiation; a copied node reads  *)
(* a designated input of the callee from the port that fed the             *)
(* instantiation at that position; one Pass per designated output of the   *)
(* callee stands for the output of the instantiation, which is deleted.    *)
(* The answer is the first node put in.                                    *)
(***************************************************************************)
IndexIn(q, x) == CHOOSE i \in 1 .. Len(q) : q[i] = x

Splice(nl, m, node_id) ==
    LET inst == NodeOf(nl, m, node_id)
        src == ModuleOf(nl, inst.mod_id)
        tgt == ModuleOf(nl, m)
        base == Len(tgt.nodes)
        ns == Len(src.nodes)
        IsInput(j) == \E i \in 1 .. Len(src.mod_inputs) : src.mod_inputs[i].node = j
        MapPort(p) == IF InSeq(p, src.mod_inputs)
                      THEN inst.ins[IndexIn(src.mod_inputs, p)]
                      ELSE Port(base + p.node, p.port)
        copied == [j \in 1 .. ns |->
                     IF IsInput(j) \/ src.nodes[j].kind = "Removed"
                     THEN [src.nodes[j] EXCEPT !.kind = "Removed", !.ins = <<>>]
                     ELSE [src.nodes[j] EXCEPT
                              !.ins = [i \in 1 .. Len(@) |-> MapPort(@[i])]]]
        passes == [k \in 1 .. Len(src.mod_outputs) |->
                     Node("Pass", <<MapPort(src.mod_outputs[k])>>,
                          <<NodeOutput(inst.outs[k].width, inst.outs[k].sym)>>)]
        kept == SelectSeq(src.order, LAMBDA j : ~IsInput(j))
        put_in == [i \in 1 .. Len(kept) |-> base + kept[i]]
                      \o [k \in 1 .. Len(passes) |-> base + ns + k]
        pos == PosIn(tgt.order, node_id)
        added == [nl EXCEPT
                    !.modules[m].nodes = @ \o copied \o passes,
                    !.modules[m].order =
                        SubSeq(@, 1, pos - 1) \o put_in
                            \o SubSeq(@, pos + 1, Len(@)),
                    !.modules[m].nodes[node_id].kind = "Removed",
                    !.modules[m].nodes[node_id].ins = <<>>]
    IN  [nl |-> MoveOutputs(added, m, node_id, base + ns, Len(passes)),
         node_id |-> IF put_in = <<>> THEN NextIn(tgt.order, node_id)
                     ELSE put_in[1],
         inlined |-> TRUE]

\* inline_mod without the guard against the module inlining itself
inline_mod_unguarded(nl, m, node_id) ==
    IF NodeOf(nl, m, node_id).kind # "ModInst"
    THEN [nl |-> nl, node_id |-> 0, inlined |-> FALSE]
    ELSE Splice(nl, m, node_id)

\* NetList::inline_mod
inline_mod(nl, m, node_id) ==
    IF \/ NodeOf(nl, m, node_id).kind # "ModInst"
       \/ NodeOf(nl, m, node_id).mod_id = m
    THEN [nl |-> nl, node_id |-> 0, inlined |-> FALSE]
    ELSE Splice(nl, m, node_id)

(***************************************************************************)
(* Transform::run and visit_module.  The nested calls of visit_module are  *)
(* the frames of `stack`: the module, the node the cursor will give next   *)
(* (0: none) and the node being worked on (0: none).                       *)
(***************************************************************************)
MaxInlinesShouldInline(max, cur) == cur < max

\* should_inline without the budget
should_inline_unlimited(c, cur) == TRUE

\* Transform::should_inline; max_inlines = -1 stands for None
should_inline(c, cur) ==
    IF c.max_inlines = -1 THEN TRUE
    ELSE MaxInlinesShouldInline(c.max_inlines, cur)

\* Transform::inc_inlines
inc_inlines(c, cur) == IF c.max_inlines = -1 THEN cur ELSE cur + 1

\* Node::mod_inst gives nothing
mod_inst_none(node) == FALSE

\* Node::mod_inst gives an instantiation
mod_inst(node) == node.kind = "ModInst"

Frame(nl, m) == [mod |-> m, next |-> FirstIn(ModuleOf(nl, m).order), cur |-> 0]

TopFrame == stack[Len(stack)]

\* a module whose visit has not returned is mutably borrowed
Borrowed(m) == \E i \in 1 .. Len(stack) : stack[i].mod = m

\* Transform::new
TransformNew ==
    /\ cons = NoIdents
    /\ current = 0
    /\ spliced = 0
    /\ stack = <<>>
    /\ returned = <<>>
    /\ trans_pc = "new"

\* Transform::run
TransformRun ==
    /\ trans_pc = "new"
    /\ IF netlist.top # 0
       THEN /\ stack' = <<Frame(netlist, netlist.top)>>
            /\ trans_pc' = "run"
       ELSE /\ trans_pc' = "done"
            /\ UNCHANGED stack
    /\ UNCHANGED <<netlist, cfg, cons, current, spliced, netlist0, returned>>
    /\ UNCHANGED transFrame

\* the head of the loop of visit_module: the cursor gives a node; for an
\* instantiation visit_module is called on its target first, which fails
\* when that module's visit is still going on
TransformFetch ==
    /\ trans_pc = "run"
    /\ stack # <<>>
    /\ TopFrame.cur = 0
    /\ TopFrame.next # 0
    /\ LET m == TopFrame.mod
           node_id == TopFrame.next
           node == NodeOf(netlist, m, node_id)
           fetched == [stack EXCEPT ![Len(stack)] =
                          [mod |-> m, cur |-> node_id,
                           next |-> NextIn(ModuleOf(netlist, m).order, node_id)]]
       IN  IF mod_inst(node)
           THEN IF Borrowed(node.mod_id)
                THEN /\ trans_pc' = "panic"
                     /\ stack' = fetched
                ELSE /\ stack' = Append(fetched, Frame(netlist, node.mod_id))
                     /\ UNCHANGED trans_pc
           ELSE /\ stack' = fetched
                /\ UNCHANGED trans_pc
    /\ UNCHANGED <<netlist, cfg, cons, current, spliced, netlist0, returned>>
    /\ UNCHANGED transFrame

\* the rest of the loop body: the node is transformed and, when transform
\* asks for it and the budget allows, the instantiation is inlined
TransformNode ==
    /\ trans_pc = "run"
    /\ stack # <<>>
    /\ TopFrame.cur # 0
    /\ LET m == TopFrame.mod
           node_id == TopFrame.cur
           st == transform([nl |-> netlist, cons |-> cons, inline |-> FALSE],
                           cfg, m, node_id)
           res == inline_mod(st.nl, m, node_id)
       IN  /\ cons' = st.cons
           /\ IF st.inline /\ should_inline(cfg, current)
              THEN /\ netlist' = res.nl
                   /\ current' = inc_inlines(cfg, current)
                   /\ spliced' = IF res.inlined THEN spliced + 1 ELSE spliced
                   /\ stack' = [stack EXCEPT ![Len(stack)] =
                                   [mod |-> m, cur |-> 0,
                                    next |-> IF res.inlined THEN res.node_id
                                             ELSE TopFrame.next]]
              ELSE /\ netlist' = st.nl
                   /\ stack' = [stack EXCEPT ![Len(stack)].cur = 0]
                   /\ UNCHANGED <<current, spliced>>
    /\ UNCHANGED <<cfg, trans_pc, netlist0, returned>>
    /\ UNCHANGED transFrame

\* visit_module returns: the cursor has no node left
TransformReturn ==
    /\ trans_pc = "run"
    /\ stack # <<>>
    /\ TopFrame.cur = 0
    /\ TopFrame.next = 0
    /\ stack' = SubSeq(stack, 1, Len(stack) - 1)
    /\ trans_pc' = IF Len(stack) = 1 THEN "done" ELSE "run"
    /\ returned' = Append(returned, TopFrame.mod)
    /\ UNCHANGED <<netlist, cfg, cons, current, spliced, netlist0>>
    /\ UNCHANGED transFrame

\* run_visitors: Transform, then Reachability
TransformStep ==
    \/ TransformRun
    \/ TransformFetch
    \/ TransformNode
    \/ TransformReturn
    \/ ReachRun
    \/ ReachNextModule
    \/ ReachVisitPort
    \/ ReachModuleDone
    \/ ReachRunDone

(***************************************************************************)
(* The netlists Transform is run on.                                       *)
(***************************************************************************)
MaxBudget == 3

Cfgs ==
    {[inline_mod |-> policy, max_inlines |-> max, no_eliminate_const |-> FALSE] :
        policy \in {"All", "Auto", "None"}, max \in -1 .. MaxBudget}
    \cup {[inline_mod |-> policy, max_inlines |-> -1, no_eliminate_const |-> TRUE] :
             policy \in {"All", "Auto", "None"}}

InputNode(width, sym) == Node("Input", <<>>, <<NodeOutput(width, sym)>>)
PassNode(input, width, sym) == Node("Pass", <<input>>, <<NodeOutput(width, sym)>>)

\* a DFF with a reset and / or an enable, each an input of the module or a
\* constant, behind a Pass that is the module's output; the data is the
\* input a or the register's own output; a second designated output may
\* use the clock, the data or the enable elsewhere.
\* Nodes: 1 clk, 2 a, 3 rst, 4 en, 5 init, 6 the DFF, 7 the Pass.
DffSource(src, sym) ==
    IF src = -1 THEN InputNode(1, sym)
    ELSE ConstNode([width |-> 1, sym |-> sym, value |-> src])

DffModule(rst, en, has_rst, has_en, rst_pol, own_data, init, extra) ==
    Module("top", TRUE,
           << InputNode(1, "clk"), InputNode(1, "a"),
              DffSource(rst, "rst"), DffSource(en, "en"),
              ConstNode([width |-> 1, sym |-> "init", value |-> init]),
              [Node("DFF",
                    <<Port(1, 0)>> \o (IF has_rst THEN <<Port(3, 0)>> ELSE <<>>)
                        \o (IF has_en THEN <<Port(4, 0)>> ELSE <<>>)
                        \o <<Port(5, 0),
                             IF own_data THEN Port(6, 0) ELSE Port(2, 0)>>,
                    <<NodeOutput(1, "q")>>)
                 EXCEPT !.has_rst = has_rst, !.has_en = has_en,
                        !.rst_pol = rst_pol],
              PassNode(Port(6, 0), 1, "out") >>,
           <<Port(1, 0), Port(2, 0)>>
               \o (IF rst = -1 THEN <<Port(3, 0)>> ELSE <<>>)
               \o (IF en = -1 THEN <<Port(4, 0)>> ELSE <<>>),
           <<Port(7, 0)>> \o (IF extra = 0 THEN <<>> ELSE <<Port(extra, 0)>>))

DffNetlists ==
    {[top |-> 1,
      modules |-> <<DffModule(rst, en, has_rst, has_en, rst_pol, own_data,
                              init, extra)>>] :
        rst \in {-1, 0, 1}, en \in {-1, 0, 1},
        has_rst \in BOOLEAN, has_en \in BOOLEAN, rst_pol \in BOOLEAN,
        own_data \in BOOLEAN, init \in {0, 1}, extra \in {0, 1, 2, 4}}

\* a Switch over the selector (an input or a constant) with one or two
\* cases of one or two values each, every output behind a Pass that is a
\* designated output.
\* Nodes: 1 sel, 2 .. 5 the inputs a, b, c, d, 6 the Switch, 7 and 8 a Pass.
Case(val) == [default |-> val = -1, val |-> val]

SwitchModule(sel, cases, n_outs) ==
    Module("top", TRUE,
           << DffSource(sel, "sel"),
              InputNode(1, "a"), InputNode(1, "b"),
              InputNode(1, "c"), InputNode(1, "d"),
              [Node("Switch",
                    <<Port(1, 0)>>
                        \o [i \in 1 .. Len(cases) * n_outs |-> Port(1 + i, 0)],
                    [k \in 1 .. n_outs |-> NodeOutput(1, "y")])
                 EXCEPT !.cases = cases],
              PassNode(Port(6, 0), 1, "out1"),
              PassNode(Port(6, n_outs - 1), 1, "out2") >>,
           (IF sel = -1 THEN <<Port(1, 0)>> ELSE <<>>)
               \o <<Port(2, 0), Port(3, 0), Port(4, 0), Port(5, 0)>>,
           <<Port(7, 0), Port(8, 0)>>)

SwitchNetlists ==
    {[top |-> 1, modules |-> <<SwitchModule(sel, cases, n_outs)>>] :
        sel \in {-1, 0, 1},
        cases \in {<<Case(0)>>, <<Case(1)>>, <<Case(-1)>>,
                   <<Case(0), Case(1)>>, <<Case(1), Case(-1)>>},
        n_outs \in {1, 2}}

\* a Merger of the inputs feeding a Splitter whose outputs are the
\* designated outputs (or, for the first output, the input of a Pass that
\* is one).  Nodes: the inputs 1 .. n, n + 1 the Merger, n + 2 the Splitter,
\* n + 3 the Pass.
MergerWidths == {<<1, 3, 5>>, <<2, 2>>}

SplitterWidths(in_widths) ==
    {in_widths, Reverse(in_widths), SubSeq(in_widths, 1, Len(in_widths) - 1)}

RECURSIVE SumSeq(_)
SumSeq(q) == IF q = <<>> THEN 0 ELSE Head(q) + SumSeq(Tail(q))

MergerSplitterModule(in_widths, out_widths, m_rev, s_rev, start, via_pass) ==
    LET n == Len(in_widths)
    IN  Module("test", FALSE,
               [i \in 1 .. n |-> InputNode(in_widths[i], "input" \o ToString(i))]
                   \o << [Node("Merger", [i \in 1 .. n |-> Port(i, 0)],
                               <<NodeOutput(SumSeq(in_widths), "merger")>>)
                            EXCEPT !.rev = m_rev],
                         [Node("Splitter", <<Port(n + 1, 0)>>,
                               [k \in 1 .. Len(out_widths) |->
                                   NodeOutput(out_widths[k], "splitter_" \o ToString(k))])
                            EXCEPT !.rev = s_rev, !.start = start],
                         PassNode(Port(n + 2, 0), out_widths[1], "out") >>,
               [i \in 1 .. n |-> Port(i, 0)],
               (IF via_pass THEN <<Port(n + 3, 0)>> ELSE <<Port(n + 2, 0)>>)
                   \o [k \in 1 .. Len(out_widths) - 1 |-> Port(n + 2, k)])

MergerSplitterNetlists ==
    {[top |-> 1,
      modules |-> <<MergerSplitterModule(in_widths, out_widths, m_rev, s_rev,
                                         start, via_pass)>>] :
        in_widths \in MergerWidths,
        out_widths \in UNION {SplitterWidths(w) : w \in MergerWidths},
        m_rev \in BOOLEAN, s_rev \in BOOLEAN, start \in {-1, 0},
        via_pass \in BOOLEAN}

\* a hierarchy: the top module instantiates `mid` and `leaf`, `mid`
\* instantiates `leaf`; `leaf` passes its input on, or holds a constant.
\* Top: 1 a, 2 the instance of mid, 3 the instance of leaf, 4 a Pass.
LeafModule(inline, const_out) ==
    [Module("leaf", FALSE,
            << InputNode(1, "x"),
               IF const_out
               THEN ConstNode([width |-> 1, sym |-> "y", value |-> 1])
               ELSE Node("BitNot", <<Port(1, 0)>>, <<NodeOutput(1, "y")>>) >>,
            <<Port(1, 0)>>, <<Port(2, 0)>>) EXCEPT !.inline = inline]

InstNode(mod_id, input, sym) ==
    [Node("ModInst", <<input>>, <<NodeOutput(1, sym)>>) EXCEPT !.mod_id = mod_id]

MidModule ==
    Module("mid", FALSE,
           << InputNode(1, "x"), InstNode(3, Port(1, 0), "u"),
              Node("BitNot", <<Port(2, 0)>>, <<NodeOutput(1, "y")>>) >>,
           <<Port(1, 0)>>, <<Port(3, 0)>>)

HierTop ==
    Module("top", TRUE,
           << InputNode(1, "a"), InstNode(2, Port(1, 0), "m"),
              InstNode(3, Port(2, 0), "l"),
              PassNode(Port(3, 0), 1, "out") >>,
           <<Port(1, 0)>>, <<Port(4, 0)>>)

HierNetlists ==
    {[top |-> 1, modules |-> <<HierTop, MidModule, LeafModule(inline, const_out)>>] :
        inline \in BOOLEAN, const_out \in BOOLEAN}

\* a caller and a callee around NODES_LIMIT_TO_INLINE nodes: the top module
\* is the input a, an instance of `chain` and BitNot nodes one after the
\* other, the last of them the designated output if there is one; `chain`
\* is its input x and BitNot nodes one after the other.
ChainModule(nodes, inline) ==
    [Module("chain", FALSE,
            [i \in 1 .. nodes |->
                IF i = 1 THEN InputNode(1, "x")
                ELSE Node("BitNot", <<Port(i - 1, 0)>>, <<NodeOutput(1, "y")>>)],
            <<Port(1, 0)>>, <<Port(nodes, 0)>>) EXCEPT !.inline = inline]

ChainTop(nodes, has_out) ==
    Module("top", TRUE,
           [i \in 1 .. nodes |->
               IF i = 1 THEN InputNode(1, "a")
               ELSE IF i = 2 THEN InstNode(2, Port(1, 0), "c")
               ELSE Node("BitNot", <<Port(i - 1, 0)>>, <<NodeOutput(1, "n")>>)],
           <<Port(1, 0)>>,
           IF has_out THEN <<Port(nodes, 0)>> ELSE <<>>)

ChainNetlists ==
    {[top |-> 1,
      modules |-> <<ChainTop(top_nodes, has_out), ChainModule(nodes, inline)>>] :
        top_nodes \in {NODES_LIMIT_TO_INLINE, NODES_LIMIT_TO_INLINE + 1},
        nodes \in {2, NODES_LIMIT_TO_INLINE + 1},
        has_out \in BOOLEAN, inline \in BOOLEAN}

\* an Extend of a constant (or of the input a, for src = -1) to a wider
\* output, behind a Pass that is the designated output; as
\* trunc_or_extend builds it, the output is wider than the input.
\* Nodes: 1 the source, 2 the Extend, 3 the Pass.
MaxExtendWidth == 4

ExtendModule(src, w, out_width, is_sign) ==
    Module("top", TRUE,
           << IF src = -1 THEN InputNode(w, "a")
              ELSE ConstNode([width |-> w, sym |-> "a", value |-> src]),
              [Node("Extend", <<Port(1, 0)>>, <<NodeOutput(out_width, "ext")>>)
                 EXCEPT !.is_sign = is_sign],
              PassNode(Port(2, 0), out_width, "out") >>,
           IF src = -1 THEN <<Port(1, 0)>> ELSE <<>>,
           <<Port(3, 0)>>)

ExtendNetlists ==
    UNION {{[top |-> 1, modules |-> <<ExtendModule(src, w, out_width, is_sign)>>] :
               src \in -1 .. (2^w - 1), out_width \in (w + 1) .. MaxExtendWidth,
               is_sign \in BOOLEAN} :
           w \in 1 .. (MaxExtendWidth - 1)}

\* a Merger of two or three constants behind a Pass that is the designated
\* output.  Nodes: the constants 1 .. n, n + 1 the Merger, n + 2 the Pass.
ConstMergerWidths == {<<1, 1>>, <<1, 2>>, <<2, 1, 1>>}

ConstMergerModule(in_widths, vals, rev) ==
    LET n == Len(in_widths)
    IN  Module("top", TRUE,
               [i \in 1 .. n |->
                   ConstNode([width |-> in_widths[i],
                              sym |-> "c" \o ToString(i), value |-> vals[i]])]
                   \o << [Node("Merger", [i \in 1 .. n |-> Port(i, 0)],
                               <<NodeOutput(SumSeq(in_widths), "merger")>>)
                            EXCEPT !.rev = rev],
                         PassNode(Port(n + 1, 0), SumSeq(in_widths), "out") >>,
               <<>>, <<Port(n + 2, 0)>>)

ConstMergerNetlists ==
    UNION {{[top |-> 1, modules |-> <<ConstMergerModule(in_widths, vals, rev)>>] :
               vals \in {q \in [1 .. Len(in_widths) -> 0 .. 3] :
                            \A i \in 1 .. Len(in_widths) : q[i] < 2^in_widths[i]},
               rev \in BOOLEAN} :
           in_widths \in ConstMergerWidths}

\* a 1-bit constant and a Splitter that cuts a 2-bit constant into two
\* 1-bit outputs, each of the three read by a Pass that is a designated
\* output; the constant or the second output of the Splitter may be a
\* designated output itself.
\* Nodes: 1 the constant c, 2 the constant s, 3 the Splitter, 4 .. 6 a Pass.
ConstSplitterModule(c, src, c_out, direct) ==
    Module("top", TRUE,
           << ConstNode([width |-> 1, sym |-> "c", value |-> c]),
              ConstNode([width |-> 2, sym |-> "s", value |-> src]),
              Node("Splitter", <<Port(2, 0)>>,
                   <<NodeOutput(1, "lo"), NodeOutput(1, "hi")>>),
              PassNode(Port(1, 0), 1, "out_c"),
              PassNode(Port(3, 0), 1, "out_lo"),
              PassNode(Port(3, 1), 1, "out_hi") >>,
           <<>>,
           (IF c_out THEN <<Port(1, 0)>> ELSE <<>>)
               \o <<Port(4, 0), Port(5, 0),
                    IF direct THEN Port(3, 1) ELSE Port(6, 0)>>)

ConstSplitterNetlists ==
    {[top |-> 1, modules |-> <<ConstSplitterModule(c, src, c_out, direct)>>] :
        c \in 0 .. 1, src \in 0 .. 3, c_out \in BOOLEAN, direct \in BOOLEAN}

\* a module instantiated at one or two sites of the top module: `pair`
\* merges its input with a constant that is not a designated output, read
\* once or twice by the Merger; the top module merges the outputs of the
\* instances.
\* pair: 1 x, 2 the constant, 3 the Merger.  Top: 1 a, then the instances,
\* then the Merger.
PairModule(val, reads) ==
    Module("pair", FALSE,
           << InputNode(1, "x"),
              ConstNode([width |-> 1, sym |-> "c", value |-> val]),
              Node("Merger", <<Port(1, 0)>> \o [i \in 1 .. reads |-> Port(2, 0)],
                   <<NodeOutput(1 + reads, "xc")>>) >>,
           <<Port(1, 0)>>, <<Port(3, 0)>>)

PairTop(sites, reads) ==
    Module("top", TRUE,
           << InputNode(1, "a") >>
               \o [i \in 1 .. sites |->
                      [Node("ModInst", <<Port(1, 0)>>,
                            <<NodeOutput(1 + reads, "p")>>) EXCEPT !.mod_id = 2]]
               \o << Node("Merger", [i \in 1 .. sites |-> Port(i + 1, 0)],
                          <<NodeOutput(sites * (1 + reads), "out")>>) >>,
           <<Port(1, 0)>>, <<Port(sites + 2, 0)>>)

PairNetlists ==
    {[top |-> 1, modules |-> <<PairTop(sites, reads), PairModule(val, reads)>>] :
        sites \in 1 .. 2, reads \in 1 .. 2, val \in 0 .. 1}

\* a small top module that instantiates `deep`, a module of more than
\* NODES_LIMIT_TO_INLINE nodes that instantiates `leaf` in turn: under the
\* policy Auto the instance of `leaf` stays in `deep` and comes into the top
\* module with the nodes of `deep`.
DeepModule ==
    Module("deep", FALSE,
           [i \in 1 .. NODES_LIMIT_TO_INLINE + 1 |->
               IF i = 1 THEN InputNode(1, "x")
               ELSE IF i = 2 THEN InstNode(3, Port(1, 0), "u")
               ELSE Node("BitNot", <<Port(i - 1, 0)>>, <<NodeOutput(1, "y")>>)],
           <<Port(1, 0)>>, <<Port(NODES_LIMIT_TO_INLINE + 1, 0)>>)

DeepNetlists ==
    {[top |-> 1,
      modules |-> <<ChainTop(3, TRUE), DeepModule, LeafModule(inline, FALSE)>>] :
        inline \in BOOLEAN}

TransformNetlists ==
    DffNetlists \cup SwitchNetlists \cup MergerSplitterNetlists
        \cup HierNetlists \cup ChainNetlists \cup ExtendNetlists
        \cup ConstMergerNetlists \cup ConstSplitterNetlists
        \cup PairNetlists \cup DeepNetlists

TransformInit ==
    /\ netlist \in {nl \in TransformNetlists : WellFormed(nl)}
    /\ netlist0 = netlist
    /\ cfg \in Cfgs
    /\ TransformNew
    /\ ReachNew
    /\ ConstIdle
    /\ NamesIdle
    /\ BvIdle
    /\ GraphIdle
    /\ InlineIdle
    /\ PipeIdle

(***************************************************************************)
(* Claims about Transform.                                                 *)
(***************************************************************************)
\* the loop body of visit_module is about to transform a node of this kind
TransformingKind(kind) ==
    /\ trans_pc = "run"
    /\ stack # <<>>
    /\ TopFrame.cur # 0
    /\ NodeOf(netlist, TopFrame.mod, TopFrame.cur).kind = kind

\* every edge that left old_port in nl_before leaves new_port in nl_after
ConsumersMovedTo(nl_before, nl_after, m, old_port, new_port) ==
    \A n \in 1 .. Len(nl_before.modules[m].nodes) :
        \A i \in 1 .. Len(nl_before.modules[m].nodes[n].ins) :
            nl_before.modules[m].nodes[n].ins[i] = old_port =>
                nl_after.modules[m].nodes[n].ins[i] = new_port

HasConsumer(nl, m, port) == outgoing(nl, m, port) # {}

\* the instantiations left in the lists of the modules
Instantiations(nl) ==
    UNION {{<<m, n>> : n \in {i \in 1 .. Len(nl.modules[m].nodes) :
                                 /\ InSeq(i, nl.modules[m].order)
                                 /\ nl.modules[m].nodes[i].kind = "ModInst"}} :
           m \in 1 .. Len(nl.modules)}

\* C5: during one Transform run the number of instantiations spliced by
\* inline_mod never exceeds the configured max_inlines; with max_inlines = 0
\* none is inlined under any policy, and with the policy None none is inlined
\* for any budget, an unlimited one included; where none is inlined every
\* instantiation is still in the list of its module, as it was or replaced
\* by the constants of its target's outputs.
C5_SplicesWithinBudget ==
    /\ cfg.max_inlines # -1 => spliced <= cfg.max_inlines
    /\ (cfg.max_inlines = 0 \/ cfg.inline_mod = "None") =>
           /\ spliced = 0
           /\ \A mn \in Instantiations(netlist0) :
                  /\ InSeq(mn[2], ModuleOf(netlist, mn[1]).order)
                  /\ NodeOf(netlist, mn[1], mn[2]).kind \in {"ModInst", "MultiConst"}

\* C5 witness: under the policy All with a budget of 1 Transform has ended
\* with one instantiation spliced and an instantiation whose target has a
\* non-constant output left in the top module.
C5_Witness ==
    /\ trans_pc = "done"
    /\ cfg.inline_mod = "All"
    /\ cfg.max_inlines = 1
    /\ spliced = 1
    /\ \E mn \in Instantiations(netlist) :
           /\ mn[1] = netlist.top
           /\ ~has_const_outputs(netlist, NodeOf(netlist, mn[1], mn[2]).mod_id)

\* a DFF whose reset input is a constant at the asserted level
ResetAsserted(nl, m, node_id) ==
    LET dff == NodeOf(nl, m, node_id)
    IN  /\ dff.kind = "DFF"
        /\ dff.has_rst
        /\ to_const(nl, m, DffRst(dff)) # -1
        /\ ~PolarityBool(dff.rst_pol, to_const(nl, m, DffRst(dff)) = 0)

DesignatedNodes(nl, m) ==
    {ModuleOf(nl, m).mod_outputs[i].node : i \in 1 .. Len(ModuleOf(nl, m).mod_outputs)}

\* the step that transforms a DFF with an asserted constant reset moves the
\* consumers of its output to its init port
AssertedResetReconnects ==
    (TransformingKind("DFF") /\ ResetAsserted(netlist, TopFrame.mod, TopFrame.cur))
        => ConsumersMovedTo(netlist, netlist', TopFrame.mod,
                            Port(TopFrame.cur, 0),
                            DffInit(NodeOf(netlist, TopFrame.mod, TopFrame.cur)))

\* after Transform and Reachability, a DFF that was built with an asserted
\* constant reset and the producers of its clock, enable and data are skip
\* unless they are designated outputs (the only other use in these modules)
AssertedResetLeavesDead ==
    (runs >= 1 /\ netlist0.top # 0) =>
        \A n \in 1 .. Len(ModuleOf(netlist0, netlist0.top).nodes) :
            ResetAsserted(netlist0, netlist0.top, n) =>
                LET m == netlist0.top
                    dff == NodeOf(netlist0, m, n)
                    producers == {n, DffClk(dff).node, DffData(dff).node}
                                     \cup (IF dff.has_en THEN {DffEn(dff).node}
                                           ELSE {})
                IN  \A x \in producers \ DesignatedNodes(netlist0, m) :
                        NodeOf(netlist, m, x).skip

\* C6 as stated: for every DFF whose reset input is a constant equal to the
\* asserted polarity, whatever its enable input is, Transform reconnects all
\* consumers of the DFF output to the DFF's init port, and a following
\* Reachability run leaves the DFF and its clock / enable / data producers
\* skip = true unless they are used elsewhere.
C6_AssertedResetCollapsesToInit ==
    [][AssertedResetReconnects]_vars /\ []AssertedResetLeavesDead

\* the module of the top is a Merger feeding a Splitter as C7 describes them,
\* and the Splitter's outputs are the designated outputs in order
CancellablePair(nl, merger_id, splitter_id) ==
    LET m == nl.top
        merger == NodeOf(nl, m, merger_id)
        splitter == NodeOf(nl, m, splitter_id)
    IN  /\ merger.kind = "Merger"
        /\ splitter.kind = "Splitter"
        /\ splitter.ins = <<Port(merger_id, 0)>>
        /\ splitter.rev # merger.rev
        /\ splitter.start = -1
        /\ Len(splitter.outs) = Len(merger.ins)
        /\ \A k \in 1 .. Len(merger.ins) :
               splitter.outs[k].width = OutOf(nl, m, merger.ins[k]).width
        /\ ModuleOf(nl, m).mod_outputs =
               [k \in 1 .. Len(splitter.outs) |-> Port(splitter_id, k - 1)]

LiveNodes(nl, m) ==
    {n \in 1 .. Len(nl.modules[m].nodes) :
        InSeq(n, nl.modules[m].order) /\ ~nl.modules[m].nodes[n].skip}

\* what C7 says of the netlist nl that came from nl0
Cancelled(nl0, nl, merger_id, splitter_id) ==
    LET m == nl0.top
        merger == NodeOf(nl0, m, merger_id)
        splitter == NodeOf(nl0, m, splitter_id)
        outputs == ModuleOf(nl, m).mod_outputs
        passes == {outputs[k].node : k \in 1 .. Len(outputs)}
    IN  /\ Len(outputs) = Len(merger.ins)
        /\ Cardinality(passes) = Len(merger.ins)
        /\ LiveNodes(nl, m) = {merger.ins[k].node : k \in 1 .. Len(merger.ins)}
                                  \cup passes
        /\ \A k \in 1 .. Len(outputs) :
               /\ NodeOf(nl, m, outputs[k].node).kind = "Pass"
               /\ outputs[k].port = 0
               /\ NodeOf(nl, m, outputs[k].node).ins = <<merger.ins[k]>>
               /\ OutOf(nl, m, outputs[k]).sym = splitter.outs[k].sym
               /\ OutOf(nl, m, outputs[k]).width = splitter.outs[k].width
               /\ ~OutOf(nl, m, outputs[k]).skip
        /\ \A n \in LiveNodes(nl, m) :
               NodeOf(nl, m, n).kind \notin {"Merger", "Splitter"}

SingleCaseReconnects ==
    (/\ TransformingKind("Switch")
     /\ Len(NodeOf(netlist, TopFrame.mod, TopFrame.cur).cases) = 1)
        => \A k \in 1 .. Len(NodeOf(netlist, TopFrame.mod, TopFrame.cur).outs) :
               ConsumersMovedTo(netlist, netlist', TopFrame.mod,
                                Port(TopFrame.cur, k - 1),
                                NodeOf(netlist, TopFrame.mod, TopFrame.cur).ins[1 + k])

\* C8: for every Switch with exactly one case, Transform reconnects the
\* consumers of each Switch output k to the k-th value port of that case,
\* whether the selector is non-constant, a constant matching the case, or a
\* constant not matching the case.
C8_SingleCaseSwitchReconnects == [][SingleCaseReconnects]_vars

\* C8 witness: Transform has ended on a module whose Switch had one case, two
\* outputs and a constant selector that does not match the case; the two
\* consumers of the Switch read the two value ports of the case.
C8_Witness ==
    /\ trans_pc = "done"
    /\ netlist0.top # 0
    /\ Len(ModuleOf(netlist0, 1).nodes) = 8
    /\ LET switch == NodeOf(netlist0, 1, 6)
       IN  /\ switch.kind = "Switch"
           /\ Len(switch.cases) = 1
           /\ Len(switch.outs) = 2
           /\ to_const(netlist0, 1, SwitchSel(switch)) # -1
           /\ ~is_match(switch.cases[1], to_const(netlist0, 1, SwitchSel(switch)))
           /\ NodeOf(netlist0, 1, 7).ins = <<Port(6, 0)>>
           /\ NodeOf(netlist0, 1, 8).ins = <<Port(6, 1)>>
           /\ NodeOf(netlist, 1, 7).ins = <<switch.ins[2]>>
           /\ NodeOf(netlist, 1, 8).ins = <<switch.ins[3]>>

(***************************************************************************)
(* Bit-vector flattening (Generator::to_bitvec / from_bitvec).  to_bitvec  *)
(* puts a Pass on a primitive and a Merger over the flattened items of an  *)
(* array or group, in declared order; from_bitvec puts a Pass on a         *)
(* primitive and a Splitter without start, one output per item in declared *)
(* order, on an array or group.  The bits a Merger and a Splitter carry    *)
(* are those of pack and unpack: the first item in the most significant    *)
(* bits.                                                                   *)
(***************************************************************************)
Prim(width) == [kind |-> "prim", width |-> width, items |-> <<>>]
Array(n, ty) == [kind |-> "array", width |-> 0, items |-> [i \in 1 .. n |-> ty]]
Group(tys) == [kind |-> "group", width |-> 0, items |-> tys]

PrimItem(val) == [prim |-> val, items |-> <<>>]
GroupItem(items) == [prim |-> 0, items |-> items]

\* SignalTy::width: the width of a primitive, the sum over the items else
RECURSIVE ty_width(_)
ty_width(ty) ==
    IF ty.kind = "prim" THEN ty.width
    ELSE IF ty.items = <<>> THEN 0
    ELSE ty_width(ty.items[1])
         + ty_width([ty EXCEPT !.items = Tail(ty.items)])

\* the output of a Merger over bit-vectors: each is shifted in below the
\* ones before it
RECURSIVE MergerOutput(_, _)
MergerOutput(inputs, k) ==
    IF k = 0 THEN [val |-> 0, width |-> 0]
    ELSE LET acc == MergerOutput(inputs, k - 1)
         IN  [val |-> acc.val * (2^inputs[k].width) + inputs[k].val,
              width |-> acc.width + inputs[k].width]

\* output k of a Splitter without start over `input` with outputs of the
\* widths of tys: the outputs are cut from the top of the input downwards
RECURSIVE WidthBefore(_, _)
WidthBefore(tys, k) ==
    IF k = 0 THEN 0 ELSE ty_width(tys[k]) + WidthBefore(tys, k - 1)

SplitterOutput(input, tys, k) ==
    [val |-> (input.val \div (2^(input.width - WidthBefore(tys, k))))
                 % (2^ty_width(tys[k])),
     width |-> ty_width(tys[k])]

\* the same, cut from the bottom of the input upwards
SplitterOutputLowFirst(input, tys, k) ==
    [val |-> (input.val \div (2^WidthBefore(tys, k - 1)))
                 % (2^ty_width(tys[k])),
     width |-> ty_width(tys[k])]

\* Generator::to_bitvec
RECURSIVE to_bitvec(_, _)
to_bitvec(ty, it) ==
    IF ty.kind = "prim"
    THEN [val |-> it.prim, width |-> ty.width]
    ELSE LET merged == MergerOutput([i \in 1 .. Len(ty.items) |->
                                        to_bitvec(ty.items[i], it.items[i])],
                                    Len(ty.items))
         IN  [val |-> merged.val, width |-> ty_width(ty)]

\* from_bitvec with every Splitter cutting its outputs from the bottom
RECURSIVE from_bitvec_low_first(_, _)
from_bitvec_low_first(ty, bv) ==
    IF bv.width # ty_width(ty) THEN NoItem
    ELSE IF ty.kind = "prim" THEN PrimItem(bv.val)
    ELSE GroupItem([i \in 1 .. Len(ty.items) |->
                       from_bitvec_low_first(ty.items[i],
                           SplitterOutputLowFirst(bv, ty.items, i))])

\* Generator::from_bitvec / to_bitvec_inner; NoItem when the widths differ
RECURSIVE from_bitvec(_, _)
from_bitvec(ty, bv) ==
    IF bv.width # ty_width(ty) THEN NoItem
    ELSE IF ty.kind = "prim" THEN PrimItem(bv.val)
    ELSE GroupItem([i \in 1 .. Len(ty.items) |->
                       from_bitvec(ty.items[i],
                                   SplitterOutput(bv, ty.items, i))])

\* the types, of at most MaxBits bits: primitives; arrays and groups of at
\* most MaxItems primitives; arrays and pairs of those
MaxItems == 2
MaxBits == 6

PrimTys == {Prim(w) : w \in 0 .. 2}

RECURSIVE TySeqs(_, _)
TySeqs(S, n) ==
    IF n = 0 THEN {<<>>}
    ELSE {Append(q, ty) : q \in TySeqs(S, n - 1), ty \in S}

Composites(S) ==
    {Array(n, ty) : n \in 1 .. MaxItems, ty \in S}
        \cup {Group(tys) : tys \in UNION {TySeqs(S, n) : n \in 1 .. MaxItems}}

Nested(S) ==
    {Array(n, ty) : n \in 1 .. MaxItems, ty \in S}
        \cup {Group(<<ty1, ty2>>) : ty1 \in S, ty2 \in S}

\* the tuple of the tests pack and unpack: (U<4>, Bit, Array<2, U<2>>)
TestTy == Group(<<Prim(4), Prim(1), Array(2, Prim(2))>>)
TestItem ==
    GroupItem(<<PrimItem(12), PrimItem(0),
                GroupItem(<<PrimItem(1), PrimItem(3)>>)>>)

SigTys ==
    {ty \in PrimTys \cup Composites(PrimTys)
                \cup Nested(PrimTys \cup Composites(PrimTys)) :
        ty_width(ty) <= MaxBits}
        \cup {TestTy}

\* the items of a type
RECURSIVE ItemsOf(_)
ItemsOf(ty) ==
    IF ty.kind = "prim" THEN {PrimItem(v) : v \in 0 .. (2^ty.width - 1)}
    ELSE IF ty.items = <<>> THEN {GroupItem(<<>>)}
    ELSE {GroupItem(<<first>> \o rest.items) :
              first \in ItemsOf(ty.items[1]),
              rest \in ItemsOf([ty EXCEPT !.items = Tail(ty.items)])}

BvInit ==
    /\ sig_ty \in SigTys
    /\ item \in ItemsOf(sig_ty)
    /\ bitvec = NoBitVec
    /\ unpacked = NoItem
    /\ bv_pc = "new"
    /\ netlist = NoNetlist
    /\ ConstIdle
    /\ ReachIdle
    /\ NamesIdle
    /\ TransIdle
    /\ GraphIdle
    /\ InlineIdle
    /\ PipeIdle

ToBitvec ==
    /\ bv_pc = "new"
    /\ bitvec' = to_bitvec(sig_ty, item)
    /\ bv_pc' = "bitvec"
    /\ UNCHANGED <<sig_ty, item, unpacked>>
    /\ UNCHANGED bvFrame

FromBitvec ==
    /\ bv_pc = "bitvec"
    /\ unpacked' = from_bitvec(sig_ty, bitvec)
    /\ bv_pc' = "item"
    /\ UNCHANGED <<sig_ty, item, bitvec>>
    /\ UNCHANGED bvFrame

BvNext == ToBitvec \/ FromBitvec

(***************************************************************************)
(* Claims about the flattening.                                            *)
(***************************************************************************)
\* the widths of the primitives of a type, in declared order
RECURSIVE LeafWidths(_)
LeafWidths(ty) ==
    IF ty.kind = "prim" THEN <<ty.width>>
    ELSE IF ty.items = <<>> THEN <<>>
    ELSE LeafWidths(ty.items[1])
             \o LeafWidths([ty EXCEPT !.items = Tail(ty.items)])

\* C10: for every composite shape (nested arrays and tuples / structs of
\* primitive widths) and every value v of that shape,
\* from_bitvec(to_bitvec(v)) = v, and the flattened width is the sum of the
\* widths of the components.
C10_FlatteningRoundTrips ==
    /\ bv_pc \in {"bitvec", "item"} =>
           /\ bitvec.width = SumSeq(LeafWidths(sig_ty))
           /\ bitvec.val \in 0 .. (2^bitvec.width - 1)
    /\ bv_pc = "item" => unpacked = item

\* C10 witness: the tuple (12, false, [1, 3]) of type
\* (U<4>, Bit, Array<2, U<2>>) has been flattened to the 9 bits 0b110000111
\* and read back.
C10_Witness ==
    /\ bv_pc = "item"
    /\ sig_ty = TestTy
    /\ item = TestItem
    /\ bitvec = [val |-> 391, width |-> 9]
    /\ unpacked = TestItem

(***************************************************************************)
(* NetList::inline_mod called on any node of any module.  Besides the      *)
(* netlists Transform is run on there are netlists whose top module holds  *)
(* an instantiation of itself or of a leaf module.                         *)
(* Top: 1 a, 2 the instantiation, 3 a Pass or a BitNot.                    *)
(***************************************************************************)
RecTop(target, kind) ==
    Module("top", TRUE,
           << InputNode(1, "a"), InstNode(target, Port(1, 0), "r"),
              Node(kind, <<Port(2, 0)>>, <<NodeOutput(1, "out")>>) >>,
           <<Port(1, 0)>>, <<Port(3, 0)>>)

RecNetlists ==
    {[top |-> 1,
      modules |-> <<RecTop(target, kind), LeafModule(inline, const_out)>>] :
        target \in {1, 2}, kind \in {"Pass", "BitNot"},
        inline \in BOOLEAN, const_out \in BOOLEAN}

InlineInit ==
    /\ netlist \in {nl \in TransformNetlists \cup RecNetlists : WellFormed(nl)}
    /\ netlist0 = netlist
    /\ inl_call = [mod |-> 0, node |-> 0]
    /\ inl_res = NoNodeId
    /\ inl_pc = "new"
    /\ TransOff
    /\ ConstIdle
    /\ ReachIdle
    /\ NamesIdle
    /\ BvIdle
    /\ GraphIdle
    /\ PipeIdle

\* netlist.inline_mod(target_mod, mod_inst_id)
InlineMod ==
    /\ inl_pc = "new"
    /\ \E m \in 1 .. Len(netlist.modules) :
       \E node_id \in 1 .. Len(ModuleOf(netlist, m).nodes) :
           LET res == inline_mod(netlist, m, node_id)
           IN  /\ netlist' = res.nl
               /\ inl_call' = [mod |-> m, node |-> node_id]
               /\ inl_res' = [some |-> res.inlined,
                              node_id |-> IF res.inlined THEN res.node_id ELSE 0]
    /\ inl_pc' = "called"
    /\ UNCHANGED inlineFrame

InlineNext == InlineMod

\* the node inline_mod was called with, as it was before the call
CalledNode == NodeOf(netlist0, inl_call.mod, inl_call.node)

\* C13: inline_mod called on an instantiation whose target is the module
\* that contains it returns None and leaves the nodes, the edges and the
\* list of that module (and of every other) as they were; so does
\* inline_mod called on a node that is no instantiation.
C13_SelfInstantiationNotInlined ==
    (/\ inl_pc = "called"
     /\ \/ CalledNode.kind # "ModInst"
        \/ CalledNode.mod_id = inl_call.mod)
        => /\ inl_res = NoNodeId
           /\ netlist = netlist0

\* inline_mod has been called on the instantiation of the top module in the
\* top module
C13_Witness ==
    /\ inl_pc = "called"
    /\ CalledNode.kind = "ModInst"
    /\ CalledNode.mod_id = inl_call.mod
    /\ inl_res = NoNodeId

\* the masked value of a constant port
ConstValueAt(nl, m, p) == Masked(to_const(nl, m, p), OutOf(nl, m, p).width)

\* the ports the value-numbering table holds for the module m
NumberedPorts(m) == {cons[key] : key \in {k \in DOMAIN cons : k[1] = m}}

\* the step that transforms a node takes a consumer off a port of the node
\* that is constant after the step only to put it on a constant port of the
\* module that was numbered earlier and has the same width and masked
\* value; never off a designated output, and never with no_eliminate_const
ConstantsMergeByValue ==
    (trans_pc = "run" /\ stack # <<>> /\ TopFrame.cur # 0) =>
        LET m == TopFrame.mod
        IN  \A n \in 1 .. Len(ModuleOf(netlist, m).nodes) :
                \A i \in 1 .. Len(NodeOf(netlist, m, n).ins) :
                    LET p == NodeOf(netlist, m, n).ins[i]
                        q == NodeOf(netlist', m, n).ins[i]
                    IN  (/\ Len(NodeOf(netlist', m, n).ins) >= i
                         /\ q # p
                         /\ p.node = TopFrame.cur
                         /\ is_const(netlist', m, p))
                            => /\ ~cfg.no_eliminate_const
                               /\ ~is_mod_output(netlist, m, p)
                               /\ q \in NumberedPorts(m)
                               /\ is_const(netlist', m, q)
                               /\ OutOf(netlist', m, q).width
                                      = OutOf(netlist', m, p).width
                               /\ ConstValueAt(netlist', m, q)
                                      = ConstValueAt(netlist', m, p)

\* C22: with value-numbering enabled, Transform reconnects the consumers of
\* a Const port, or of output i of a MultiConst, only to an earlier constant
\* port of the same module that has the same width and the same masked value
\* as that port, and leaves the consumers of the other outputs of the same
\* MultiConst untouched; a constant that is a designated module output is
\* never reconnected away, and with no_eliminate_const set no constant is
\* reconnected.
C22_ValueNumberingMergesEqualConstants == [][ConstantsMergeByValue]_vars

\* the step that transforms a DFF whose enable input is the constant zero
\* moves the consumers of its output to its init port
NeverEnabledReconnects ==
    LET m == TopFrame.mod
        dff == NodeOf(netlist, m, TopFrame.cur)
    IN  (/\ TransformingKind("DFF")
         /\ dff.has_en
         /\ to_const(netlist, m, DffEn(dff)) = 0)
            => ConsumersMovedTo(netlist, netlist', m, Port(TopFrame.cur, 0),
                                DffInit(dff))

\* the step that transforms a DFF whose enable input is a constant other
\* than zero leaves a DFF without enable, with the clock, init and data
AlwaysEnabledDropsEnable ==
    LET m == TopFrame.mod
        dff == NodeOf(netlist, m, TopFrame.cur)
        new_dff == NodeOf(netlist', m, TopFrame.cur)
    IN  (/\ TransformingKind("DFF")
         /\ dff.has_en
         /\ to_const(netlist, m, DffEn(dff)) > 0)
            => /\ new_dff.kind = "DFF"
               /\ ~new_dff.has_en
               /\ DffClk(new_dff) = DffClk(dff)
               /\ DffInit(new_dff) = DffInit(dff)
               /\ DffData(new_dff) = DffData(dff)

\* C21: for every DFF whose enable input is the constant zero, whatever its
\* reset input is (absent, non-constant, constant inactive or constant
\* asserted), Transform reconnects all consumers of the DFF output to the
\* init port; and for every DFF whose enable is a non-zero constant, the DFF
\* is replaced by one without the enable input and with the same clock, init
\* and data.
C21_ConstantEnableFolds ==
    [][NeverEnabledReconnects]_vars /\ [][AlwaysEnabledDropsEnable]_vars

\* the constant an Extend with this flag has to put out for the constant
\* val of width w at the output width out_width
Extended(val, w, out_width, is_sign) ==
    IF is_sign /\ (val \div (2^(w - 1))) % 2 = 1
    THEN val + (2^out_width) - (2^w)
    ELSE val

\* the step that transforms an Extend whose input is a constant narrower
\* than its output leaves a Const with the extended value in its place
ExtendFoldsToExtension ==
    LET m == TopFrame.mod
        ext == NodeOf(netlist, m, TopFrame.cur)
        w == OutOf(netlist, m, ext.ins[1]).width
        folded == NodeOf(netlist', m, TopFrame.cur)
    IN  (/\ TransformingKind("Extend")
         /\ to_const(netlist, m, ext.ins[1]) # -1
         /\ ext.outs[1].width > w)
            => /\ folded.kind = "Const"
               /\ folded.outs[1].width = ext.outs[1].width
               /\ Masked(folded.values[1], folded.outs[1].width) =
                      Extended(Masked(to_const(netlist, m, ext.ins[1]), w),
                               w, ext.outs[1].width, ext.is_sign)

\* C19: when Transform folds an Extend node whose input is a constant of
\* width w into a Const of output width W > w, the Const's value is the
\* input zero-extended when the sign flag is false and sign-extended (bits
\* w .. W-1 equal to bit w-1 of the input) when the sign flag is true.
C19_ExtendFoldKeepsSign == [][ExtendFoldsToExtension]_vars

\* the concatenation of the constants at the ports ins, the first of them in
\* the most significant bits: [val, width]
RECURSIVE Concat(_, _, _)
Concat(nl, m, ins) ==
    IF ins = <<>> THEN [val |-> 0, width |-> 0]
    ELSE LET rest == Concat(nl, m, Tail(ins))
             w == OutOf(nl, m, Head(ins)).width
         IN  [val |-> Masked(to_const(nl, m, Head(ins)), w) * (2^rest.width)
                          + rest.val,
              width |-> w + rest.width]

\* the step that transforms a Merger whose inputs are all constant leaves a
\* Const in its place: the inputs in declared order, or reversed with rev
MergerFoldsInOrder ==
    LET m == TopFrame.mod
        merger == NodeOf(netlist, m, TopFrame.cur)
        expected == Concat(netlist, m,
                           IF merger.rev THEN Reverse(merger.ins)
                           ELSE merger.ins)
        folded == NodeOf(netlist', m, TopFrame.cur)
    IN  (/\ TransformingKind("Merger")
         /\ \A i \in 1 .. Len(merger.ins) :
                to_const(netlist, m, merger.ins[i]) # -1)
            => /\ folded.kind = "Const"
               /\ folded.outs[1].width = expected.width
               /\ Masked(folded.values[1], expected.width) = expected.val

\* ConstVal::shift, step k over the inputs of the Merger about to be
\* transformed: the width is the sum of both widths and the value is
\* old_value * 2^(appended width) + appended value
ShiftStepsAppend ==
    TransformingKind("Merger") =>
        LET m == TopFrame.mod
            ins == NodeOf(netlist, m, TopFrame.cur).ins
        IN  \A k \in 1 .. Len(ins) :
                (\A i \in 1 .. k : to_const(netlist, m, ins[i]) # -1) =>
                    LET old == ShiftIn(netlist, m, ins, k - 1)
                        new == ShiftIn(netlist, m, ins, k)
                        w == OutOf(netlist, m, ins[k]).width
                    IN  /\ new.width = old.width + w
                        /\ new.val = old.val * (2^w)
                                        + Masked(to_const(netlist, m, ins[k]), w)

\* C20: folding a Merger whose inputs c1 .. cN are all constant yields a
\* constant of width equal to the sum of the input widths whose bits are the
\* concatenation of the inputs in declared order (c1 in the most significant
\* bits) when rev is false and in reversed order when rev is true; each
\* shift-in step sets width to the sum of both widths and value to
\* old_value * 2^(appended width) + appended value.
C20_MergerFoldConcatenates ==
    [][MergerFoldsInOrder]_vars /\ []ShiftStepsAppend

\* the instantiation the loop body is about to transform, under the Auto
\* policy, of a module whose outputs are not all constant
DecidingAuto ==
    /\ TransformingKind("ModInst")
    /\ cfg.inline_mod = "Auto"
    /\ ~has_const_outputs(netlist,
                          NodeOf(netlist, TopFrame.mod, TopFrame.cur).mod_id)

\* what Transform::transform answers for the node it is about to transform
InlineAnswer ==
    transform([nl |-> netlist, cons |-> cons, inline |-> FALSE],
              cfg, TopFrame.mod, TopFrame.cur).inline

\* C17: under the Auto policy an instantiation whose target does not have
\* all-constant outputs is selected for inlining if and only if the target
\* is hint-marked inline, or the caller has no ports at all, or the target's
\* node count is at most NODES_LIMIT_TO_INLINE, or every input of the
\* instantiation is constant.
C17_AutoInlinesSmallTargets ==
    DecidingAuto =>
        LET caller == ModuleOf(netlist, TopFrame.mod)
            target == ModuleOf(netlist,
                          NodeOf(netlist, TopFrame.mod, TopFrame.cur).mod_id)
        IN  InlineAnswer <=>
                \/ target.inline
                \/ (Len(caller.mod_inputs) = 0 /\ Len(caller.mod_outputs) = 0)
                \/ Len(target.order) <= NODES_LIMIT_TO_INLINE
                \/ node_has_const_inputs(netlist, TopFrame.mod, TopFrame.cur)

\* the step of visit_module that calls transform on the node the cursor gave
TransformsNode ==
    /\ trans_pc = "run"
    /\ stack # <<>>
    /\ TopFrame.cur # 0
    /\ stack' # stack

\* the ModInst rule is applied right after visit_module returned from the
\* instantiation's target
TargetVisitedFirst ==
    (TransformsNode
        /\ NodeOf(netlist, TopFrame.mod, TopFrame.cur).kind = "ModInst") =>
        /\ returned # <<>>
        /\ returned[Len(returned)]
               = NodeOf(netlist, TopFrame.mod, TopFrame.cur).mod_id

\* C25: whenever Transform applies the ModInst rule to an instantiation
\* node (the replacement by a MultiConst or the inlining decision), a
\* complete Transform visit of the target module has already finished, also
\* for instantiation nodes that entered the caller through an earlier inline.
C25_TargetVisitedBeforeModInstRule == [][TargetVisitedFirst]_vars

\* `deep` has been spliced into the top module with its instance of `leaf`
\* still in it, and that instance was transformed in the top module after a
\* second visit of `leaf`
C25_Witness ==
    /\ trans_pc = "done"
    /\ netlist0 \in DeepNetlists
    /\ cfg.inline_mod = "Auto"
    /\ spliced >= 1
    /\ returned = <<3, 2, 3, 1>>
    /\ \E n \in 1 .. Len(ModuleOf(netlist, 1).nodes) :
           /\ NodeOf(netlist, 1, n).kind = "ModInst"
           /\ NodeOf(netlist, 1, n).mod_id = 3

\* the value-numbering table does not hold, for an output of the constant
\* node that is transformed, that output itself
NoOwnPortReturned ==
    TransformsNode =>
        LET m == TopFrame.mod
            n == TopFrame.cur
            node == NodeOf(netlist, m, n)
        IN  (node.kind \in {"Const", "MultiConst"} /\ ~cfg.no_eliminate_const) =>
                \A k \in 1 .. Len(node.outs) :
                    LET key == <<m, Masked(node.values[k], node.outs[k].width),
                                 node.outs[k].width>>
                    IN  (~is_mod_output(netlist, m, Port(n, k - 1))
                            /\ key \in DOMAIN cons) =>
                            cons[key] # Port(n, k - 1)

\* C27: Transform visits a module once per instantiation site; on every
\* visit after the first the value-numbering table never returns for a
\* constant port that same port, so eliminate_const never reconnects the
\* consumers of a constant onto the constant itself.
C27_TableNeverReturnsOwnPort == [][NoOwnPortReturned]_vars

(***************************************************************************)
(* NetList::run_visitors: Transform, then Reachability, then Set-Names,    *)
(* each run to its end before the next starts.  The pipeline is run on a   *)
(* netlist and then once more on the netlist as it was built, with new     *)
(* visitors.                                                               *)
(***************************************************************************)
PipelineNetlists ==
    SwitchNetlists \cup MergerSplitterNetlists \cup HierNetlists

PipelineInit ==
    /\ netlist \in {nl \in PipelineNetlists : WellFormed(nl)}
    /\ netlist0 = netlist
    /\ cfg \in Cfgs
    /\ TransformNew
    /\ ReachNew
    /\ NamesNew
    /\ pipe_run = 1
    /\ first_out = NoNetlist
    /\ ConstIdle
    /\ BvIdle
    /\ GraphIdle
    /\ InlineIdle

\* self.reachability(), once Transform::run has returned
PipeReachRun ==
    /\ runs = 0
    /\ ReachRun

\* self.set_names(), once Reachability::run has returned
PipeNamesRun ==
    /\ reach_pc = "done"
    /\ NamesRun

\* run_visitors has returned; it is called on the netlist as built
PipeSecondRun ==
    /\ names_pc = "done"
    /\ pipe_run = 1
    /\ pipe_run' = 2
    /\ first_out' = netlist
    /\ netlist' = netlist0
    /\ cons' = NoIdents
    /\ current' = 0
    /\ spliced' = 0
    /\ returned' = <<>>
    /\ stack' = <<>>
    /\ trans_pc' = "new"
    /\ ports' = <<>>
    /\ modules' = <<>>
    /\ handled' = {}
    /\ visiting' = 0
    /\ reach_pc' = "new"
    /\ runs' = 0
    /\ first_flags' = <<>>
    /\ marked' = <<>>
    /\ idents' = NoIdents
    /\ module_idents' = NoIdents
    /\ names_pc' = "new"
    /\ names_mod' = 0
    /\ names_node' = 0
    /\ UNCHANGED <<cfg, netlist0>>
    /\ UNCHANGED pipeFrame

PipelineNext ==
    \/ TransformRun
    \/ TransformFetch
    \/ TransformNode
    \/ TransformReturn
    \/ PipeReachRun
    \/ ReachNextModule
    \/ ReachVisitPort
    \/ ReachModuleDone
    \/ ReachRunDone
    \/ PipeNamesRun
    \/ NamesVisitModule
    \/ NamesVisitNode
    \/ NamesModuleDone
    \/ NamesDone
    \/ PipeSecondRun

EMPTY == -1

\* List::add: the item goes to the tail
ListAdd(list, id) == Append(list, id)

\* List::remove
ListRemove(list, id) == SeqFilterNe(list, id)

\* List::replace: new takes the place of old
ListReplace(list, old, new) ==
    [i \in 1 .. Len(list) |-> IF list[i] = old THEN new ELSE list[i]]

\* List::cursor: the cursor stands before the head
ListHead(list) == IF list = <<>> THEN EMPTY ELSE list[1]

\* ListCursor::next_ moves the cursor to the item after id
ListNext(list, id) ==
    IF \E i \in 1 .. Len(list) - 1 : list[i] = id
    THEN list[1 + CHOOSE i \in 1 .. Len(list) - 1 : list[i] = id]
    ELSE EMPTY

\* Graph::push_edge; the new edge has the id g.last_idx
push_edge(g, port_out, port_in) ==
    [g EXCEPT !.edges = [id \in DOMAIN g.edges \cup {g.last_idx} |->
                            IF id = g.last_idx
                            THEN [port_out |-> port_out, port_in |-> port_in]
                            ELSE g.edges[id]],
              !.last_idx = @ + 1]

\* Graph::add_edge
add_edge(g, port_out, port_in) ==
    LET edge_id == g.last_idx
        pushed == push_edge(g, port_out, port_in)
    IN  [pushed EXCEPT !.outs[port_out.node] = ListAdd(@, edge_id),
                       !.incs[port_in.node] = ListAdd(@, edge_id)]

\* IndexStorage::swap_remove: the entry of the id is gone, the other ids
\* stay
swap_remove(edges, id) == [k \in DOMAIN edges \ {id} |-> edges[k]]

\* one turn of the loop of reconnect_all_outgoing, but the new edge is
\* taken out of the incoming list and added to its tail
reconnect_edge_readded(g, old_edge_id, new_port) ==
    LET port_out == g.edges[old_edge_id].port_out
        port_in == g.edges[old_edge_id].port_in
        new_edge_id == g.last_idx
        pushed == push_edge(g, new_port, port_in)
        removed == [pushed EXCEPT !.outs[port_out.node] =
                                      ListRemove(@, old_edge_id)]
        added == [removed EXCEPT !.outs[new_port.node] =
                                     ListAdd(@, new_edge_id)]
        readded == [added EXCEPT !.incs[port_in.node] =
                        ListAdd(ListRemove(@, old_edge_id), new_edge_id)]
    IN  [readded EXCEPT !.edges = swap_remove(@, old_edge_id)]

\* one turn of the loop of reconnect_all_outgoing
reconnect_edge(g, old_edge_id, new_port) ==
    LET port_out == g.edges[old_edge_id].port_out
        port_in == g.edges[old_edge_id].port_in
        new_edge_id == g.last_idx
        pushed == push_edge(g, new_port, port_in)
        removed == [pushed EXCEPT !.outs[port_out.node] =
                                      ListRemove(@, old_edge_id)]
        added == [removed EXCEPT !.outs[new_port.node] =
                                     ListAdd(@, new_edge_id)]
        replaced == [added EXCEPT !.incs[port_in.node] =
                                      ListReplace(@, old_edge_id, new_edge_id)]
    IN  [replaced EXCEPT !.edges = swap_remove(@, old_edge_id)]

\* the loop of reconnect_all_outgoing from the edge the cursor is before:
\* OutgoingEdges::next_ moves the cursor on before the edge is handled and
\* passes over the edges of the other output indices
RECURSIVE ReconnectLoop(_, _, _, _)
ReconnectLoop(g, cursor, old_port, new_port) ==
    IF cursor = EMPTY
    THEN g
    ELSE LET next == ListNext(g.outs[old_port.node], cursor)
         IN  IF g.edges[cursor].port_out.port = old_port.port
             THEN ReconnectLoop(reconnect_edge(g, cursor, new_port), next,
                                old_port, new_port)
             ELSE ReconnectLoop(g, next, old_port, new_port)

\* Graph::reconnect_all_outgoing
Graph_reconnect_all_outgoing(g, old_port, new_port) ==
    ReconnectLoop(g, ListHead(g.outs[old_port.node]), old_port, new_port)

(***************************************************************************)
(* The graphs: three nodes with two output indices each and up to          *)
(* MaxGraphEdges edges added one by one; an edge enters its consumer at    *)
(* the next free input index.                                              *)
(***************************************************************************)
MaxGraphEdges == 3

GraphNodeIds == 0 .. 2
OutPorts == {Port(n, k) : n \in GraphNodeIds, k \in {0, 1}}

\* Graph::default and add_node for every node
GraphInit ==
    /\ graph = [edges |-> <<>>,
                outs |-> [n \in GraphNodeIds |-> <<>>],
                incs |-> [n \in GraphNodeIds |-> <<>>],
                last_idx |-> 0,
                last_node |-> 3]
    /\ graph0 = NoGraph
    /\ g_old = NoPort
    /\ g_new = NoPort
    /\ g_pc = "build"
    /\ g_cursor = EMPTY
    /\ netlist = NoNetlist
    /\ ConstIdle
    /\ ReachIdle
    /\ NamesIdle
    /\ TransIdle
    /\ BvIdle
    /\ InlineIdle
    /\ PipeIdle

GraphAddEdge ==
    /\ g_pc = "build"
    /\ Cardinality(DOMAIN graph.edges) < MaxGraphEdges
    /\ \E port_out \in OutPorts, consumer \in GraphNodeIds :
           graph' = add_edge(graph, port_out,
                             Port(consumer, Len(graph.incs[consumer])))
    /\ UNCHANGED <<graph0, g_old, g_new, g_pc, g_cursor>>
    /\ UNCHANGED graphFrame

GraphReconnect ==
    /\ g_pc = "build"
    /\ \E old_port \in OutPorts, new_port \in OutPorts :
           /\ old_port # new_port
           /\ graph' = Graph_reconnect_all_outgoing(graph, old_port, new_port)
           /\ g_old' = old_port
           /\ g_new' = new_port
    /\ graph0' = graph
    /\ g_pc' = "reconnected"
    /\ UNCHANGED g_cursor
    /\ UNCHANGED graphFrame

GraphNext == GraphAddEdge \/ GraphReconnect

(***************************************************************************)
(* Claims about the graph store.                                           *)
(***************************************************************************)
\* the ids of the edges of g that leave port
EdgesFrom(g, port) == {id \in DOMAIN g.edges : g.edges[id].port_out = port}

\* every edge is in the outgoing list of its producer and in the incoming
\* list of its consumer, once, and in no other list
ListsMatchEdges(g) ==
    \A n \in GraphNodeIds :
        /\ HasNoRepeat(g.outs[n])
        /\ HasNoRepeat(g.incs[n])
        /\ {g.outs[n][i] : i \in 1 .. Len(g.outs[n])} =
               {id \in DOMAIN g.edges : g.edges[id].port_out.node = n}
        /\ {g.incs[n][i] : i \in 1 .. Len(g.incs[n])} =
               {id \in DOMAIN g.edges : g.edges[id].port_in.node = n}

\* the edges of g that were there before and did not leave g_old
Kept(g, id) == id \in DOMAIN graph0.edges /\ graph0.edges[id].port_out # g_old

\* C12: after reconnect_all_outgoing(old_port, new_port) with old_port
\* different from new_port, no edge leaves old_port; every incoming list
\* has the length it had, and where an edge from old_port stood there is an
\* edge from new_port to the same input; every other edge is the same edge
\* at the same place of its incoming list and in the same order in its
\* outgoing list; the number of edges is the same.
C12_ReconnectMovesEveryConsumer ==
    g_pc = "reconnected" =>
        /\ EdgesFrom(graph, g_old) = {}
        /\ \A c \in GraphNodeIds :
               /\ Len(graph.incs[c]) = Len(graph0.incs[c])
               /\ \A i \in 1 .. Len(graph0.incs[c]) :
                      LET before == graph0.edges[graph0.incs[c][i]]
                          after == graph.edges[graph.incs[c][i]]
                      IN  IF before.port_out = g_old
                          THEN /\ after.port_out = g_new
                               /\ after.port_in = before.port_in
                          ELSE /\ graph.incs[c][i] = graph0.incs[c][i]
                               /\ after = before
        /\ \A n \in GraphNodeIds :
               SelectSeq(graph.outs[n], LAMBDA id : Kept(graph, id)) =
                   SelectSeq(graph0.outs[n], LAMBDA id : Kept(graph, id))
        /\ Cardinality(DOMAIN graph.edges) = Cardinality(DOMAIN graph0.edges)
        /\ ListsMatchEdges(graph)

\* two consumers of port (1 0), the second one on the same node as an edge
\* from another port, have been moved to port (1 1), which had a consumer
C12_Witness ==
    /\ g_pc = "reconnected"
    /\ g_old = Port(1, 0)
    /\ g_new = Port(1, 1)
    /\ Cardinality(EdgesFrom(graph0, g_old)) = 2
    /\ Cardinality(EdgesFrom(graph0, g_new)) = 1
    /\ Cardinality(EdgesFrom(graph, g_new)) = 3
    /\ Len(graph0.incs[2]) = 2
    /\ graph0.edges[graph0.incs[2][1]].port_out = g_old
    /\ graph0.edges[graph0.incs[2][2]].port_out = g_new

(***************************************************************************)
(* The graph store under all of its operations: nodes are added and        *)
(* removed, edges are added and removed, and reconnect_all_outgoing runs   *)
(* one turn of its loop at a time, for any two ports of the nodes that     *)
(* are there.                                                              *)
(***************************************************************************)
MaxStoreNodes == 2
MaxStoreEdges == 2
MaxEdgeIds == 6

\* Graph::add_node; the new node has the id g.last_node
add_node(g) ==
    [g EXCEPT !.outs = [n \in DOMAIN g.outs \cup {g.last_node} |->
                           IF n = g.last_node THEN <<>> ELSE g.outs[n]],
              !.incs = [n \in DOMAIN g.incs \cup {g.last_node} |->
                           IF n = g.last_node THEN <<>> ELSE g.incs[n]],
              !.last_node = @ + 1]

\* remove_edge that leaves the edge in the incoming list of its consumer
remove_edge_out_only(g, edge_id) ==
    [g EXCEPT !.outs[g.edges[edge_id].port_out.node] = ListRemove(@, edge_id),
              !.edges = swap_remove(@, edge_id)]

\* Graph::remove_edge
remove_edge(g, edge_id) ==
    [g EXCEPT !.outs[g.edges[edge_id].port_out.node] = ListRemove(@, edge_id),
              !.incs[g.edges[edge_id].port_in.node] = ListRemove(@, edge_id),
              !.edges = swap_remove(@, edge_id)]

\* the loops of remove_inc_edges and remove_out_edges from the edge the
\* cursor is before: the cursor moves on before the edge is removed
RECURSIVE RemoveIncLoop(_, _, _)
RemoveIncLoop(g, cursor, node_id) ==
    IF cursor = EMPTY THEN g
    ELSE RemoveIncLoop(remove_edge(g, cursor),
                       ListNext(g.incs[node_id], cursor), node_id)

RECURSIVE RemoveOutLoop(_, _, _)
RemoveOutLoop(g, cursor, node_id) ==
    IF cursor = EMPTY THEN g
    ELSE RemoveOutLoop(remove_edge(g, cursor),
                       ListNext(g.outs[node_id], cursor), node_id)

remove_inc_edges(g, node_id) ==
    RemoveIncLoop(g, ListHead(g.incs[node_id]), node_id)

remove_out_edges(g, node_id) ==
    RemoveOutLoop(g, ListHead(g.outs[node_id]), node_id)

\* Graph::remove_all_edges
remove_all_edges(g, node_id) ==
    remove_out_edges(remove_inc_edges(g, node_id), node_id)

\* Graph::remove_node
remove_node(g, node_id) ==
    LET severed == remove_all_edges(g, node_id)
    IN  [severed EXCEPT !.outs = [n \in DOMAIN @ \ {node_id} |-> @[n]],
                        !.incs = [n \in DOMAIN @ \ {node_id} |-> @[n]]]

StoreNodes(g) == DOMAIN g.outs
StorePorts(g) == {Port(n, k) : n \in StoreNodes(g), k \in {0, 1}}

\* Graph::default
StoreInit ==
    /\ graph = NoGraph
    /\ graph0 = NoGraph
    /\ g_old = NoPort
    /\ g_new = NoPort
    /\ g_pc = "build"
    /\ g_cursor = EMPTY
    /\ netlist = NoNetlist
    /\ ConstIdle
    /\ ReachIdle
    /\ NamesIdle
    /\ TransIdle
    /\ BvIdle
    /\ InlineIdle
    /\ PipeIdle

StoreAddNode ==
    /\ g_pc = "build"
    /\ graph.last_node < MaxStoreNodes
    /\ graph' = add_node(graph)
    /\ UNCHANGED <<graph0, g_old, g_new, g_pc, g_cursor>>
    /\ UNCHANGED graphFrame

StoreRemoveNode ==
    /\ g_pc = "build"
    /\ \E node_id \in StoreNodes(graph) :
           graph' = remove_node(graph, node_id)
    /\ UNCHANGED <<graph0, g_old, g_new, g_pc, g_cursor>>
    /\ UNCHANGED graphFrame

StoreAddEdge ==
    /\ g_pc = "build"
    /\ Cardinality(DOMAIN graph.edges) < MaxStoreEdges
    /\ graph.last_idx < MaxEdgeIds
    /\ \E port_out \in StorePorts(graph), consumer \in StoreNodes(graph) :
           graph' = add_edge(graph, port_out,
                             Port(consumer, Len(graph.incs[consumer])))
    /\ UNCHANGED <<graph0, g_old, g_new, g_pc, g_cursor>>
    /\ UNCHANGED graphFrame

StoreRemoveEdge ==
    /\ g_pc = "build"
    /\ \E edge_id \in DOMAIN graph.edges :
           graph' = remove_edge(graph, edge_id)
    /\ UNCHANGED <<graph0, g_old, g_new, g_pc, g_cursor>>
    /\ UNCHANGED graphFrame

\* reconnect_all_outgoing is called: self.outgoing(old_port).  The ids that
\* are left allow two turns of the loop body per edge that leaves old_port.
StoreReconnect ==
    /\ g_pc = "build"
    /\ \E old_port \in StorePorts(graph), new_port \in StorePorts(graph) :
           /\ graph.last_idx + 2 * Cardinality(EdgesFrom(graph, old_port))
                  <= MaxEdgeIds
           /\ g_old' = old_port
           /\ g_new' = new_port
           /\ g_cursor' = ListHead(graph.outs[old_port.node])
    /\ graph0' = graph
    /\ g_pc' = "loop"
    /\ UNCHANGED graph
    /\ UNCHANGED graphFrame

\* one edge of the outgoing list: OutgoingEdges::next_ moves the cursor on
\* and passes over an edge of another output index; the body of the loop
\* of reconnect_all_outgoing handles an edge of old_port
StoreReconnectTurn ==
    /\ g_pc = "loop"
    /\ g_cursor # EMPTY
    /\ g_cursor' = ListNext(graph.outs[g_old.node], g_cursor)
    /\ IF graph.edges[g_cursor].port_out.port = g_old.port
       THEN /\ graph.last_idx < MaxEdgeIds
            /\ graph' = reconnect_edge(graph, g_cursor, g_new)
       ELSE UNCHANGED graph
    /\ UNCHANGED <<graph0, g_old, g_new, g_pc>>
    /\ UNCHANGED graphFrame

\* the cursor has no edge left: reconnect_all_outgoing returns
StoreReconnectEnd ==
    /\ g_pc = "loop"
    /\ g_cursor = EMPTY
    /\ g_pc' = "build"
    /\ graph0' = NoGraph
    /\ g_old' = NoPort
    /\ g_new' = NoPort
    /\ UNCHANGED <<graph, g_cursor>>
    /\ UNCHANGED graphFrame

StoreNext ==
    \/ StoreAddNode
    \/ StoreRemoveNode
    \/ StoreAddEdge
    \/ StoreRemoveEdge
    \/ StoreReconnect
    \/ StoreReconnectTurn
    \/ StoreReconnectEnd

\* the ids in a list
ListIds(list) == {list[i] : i \in 1 .. Len(list)}

\* C24: after any sequence of add_node, add_edge, remove_edge, remove_node
\* and reconnect_all_outgoing, every stored edge occurs exactly once in the
\* outgoing list of its producer node and exactly once in the incoming list
\* of its consumer node, the lists contain no other edge, and no stored edge
\* has an endpoint on a removed node.
C24_EdgesThreadedOnce ==
    /\ DOMAIN graph.incs = DOMAIN graph.outs
    /\ \A n \in StoreNodes(graph) :
           /\ HasNoRepeat(graph.outs[n])
           /\ HasNoRepeat(graph.incs[n])
           /\ ListIds(graph.outs[n]) =
                  {id \in DOMAIN graph.edges : graph.edges[id].port_out.node = n}
           /\ ListIds(graph.incs[n]) =
                  {id \in DOMAIN graph.edges : graph.edges[id].port_in.node = n}
    /\ \A id \in DOMAIN graph.edges :
           /\ graph.edges[id].port_out.node \in StoreNodes(graph)
           /\ graph.edges[id].port_in.node \in StoreNodes(graph)

\* a node has been removed, an edge has been removed, the loop of a
\* reconnect_all_outgoing has come to its end, and an edge is stored that
\* was moved by it: its consumer is the node that it leaves
C24_Witness ==
    /\ g_pc = "loop"
    /\ g_cursor = EMPTY
    /\ g_old # g_new
    /\ graph.last_idx > Cardinality(DOMAIN graph.edges)
                            + Cardinality(EdgesFrom(graph0, g_old))
    /\ Cardinality(StoreNodes(graph)) < graph.last_node
    /\ \E id \in DOMAIN graph.edges :
           /\ id \notin DOMAIN graph0.edges
           /\ graph.edges[id].port_out = g_new
           /\ graph.edges[id].port_in.node = g_new.node

\* the producer / consumer connections of g, each with the number of edges
\* that make it
Connections(g) ==
    {<<g.edges[id].port_out, g.edges[id].port_in,
       Cardinality({k \in DOMAIN g.edges : g.edges[k] = g.edges[id]})>> :
        id \in DOMAIN g.edges}

\* reconnect_all_outgoing(p, p) returns with the connections it started with
SamePortKeepsConnections ==
    (g_pc = "loop" /\ g_pc' = "build" /\ g_old = g_new)
        => Connections(graph) = Connections(graph0)

SpecConst == ConstInit /\ [][ConstNext]_vars

SpecReach == ReachInit /\ [][ReachStep]_vars

\* run and visit_module go on while they have a module, a port or a return
\* to take
SpecReachFair ==
    /\ ReachInit
    /\ [][ReachStep]_vars
    /\ WF_vars(ReachNextModule)
    /\ WF_vars(ReachVisitPort)
    /\ WF_vars(ReachModuleDone)
    /\ WF_vars(ReachRunDone)

SpecNames == NamesInit /\ [][NamesStep]_vars

SpecTransform == TransformInit /\ [][TransformStep]_vars

SpecBitvec == BvInit /\ [][BvNext]_vars

SpecGraph == GraphInit /\ [][GraphNext]_vars

SpecInline == InlineInit /\ [][InlineNext]_vars

SpecPipeline == PipelineInit /\ [][PipelineNext]_vars

SpecStore == StoreInit /\ [][StoreNext]_vars

\* the loop of reconnect_all_outgoing goes on while it can
SpecStoreFair ==
    /\ StoreInit
    /\ [][StoreNext]_vars
    /\ WF_vars(StoreReconnectTurn)
    /\ WF_vars(StoreReconnectEnd)

====
